---- MODULE Spec2Model ----
(***************************************************************************)
(* Cortex (src-tauri): the store (db/schema.rs, db/operations.rs), the     *)
(* scanner and its queue (indexer/scanner.rs, indexer/types.rs), the       *)
(* indexing commands (commands/indexing.rs, state.rs) and the exporters    *)
(* (export/, commands/export.rs) as state machines.                        *)
(*                                                                         *)
(* These specifications share the module:                                  *)
(*   SpecStore  the SQL operations of db/operations.rs on the schema of    *)
(*              db/schema.rs, applied in any order;                        *)
(*   SpecScan   FileScanner::scan_directory on any small set of files met  *)
(*              in any traversal order;                                    *)
(*   SpecQueue  IndexQueue push / extend / pop;                            *)
(*   Spec       start_indexing / stop_indexing / the spawned pipeline      *)
(*              task, interleaved at their lock acquisitions;              *)
(*   SpecProgress    one pipeline run over up to MaxJobs files;            *)
(*   SpecRoots       one pipeline run over any list of roots, with         *)
(*                   stop_indexing;                                        *)
(*   SpecChunk       RakeExporter::chunk_text, word by word;               *)
(*   SpecPackage     RakeExporter::export between store operations;        *)
(*   SpecExportPath  the export commands and PathValidator on a small      *)
(*                   file system;                                          *)
(*   SpecDetail      get_file_detail on texts around the preview length;   *)
(*   SpecWatch       one FileWatcher: notify's callback, the bounded       *)
(*                   channel and the consumer of its receiver;             *)
(*   SpecEmbed       one generate_all_embeddings call, batch by batch;     *)
(*   SpecPreview     the export previews and RakeExporter::export between  *)
(*                   store operations.                                     *)
(***************************************************************************)
EXTENDS Integers, Sequences, FiniteSets, TLC

\* ------------------------------------------------------------------ bounds

\* Words per extracted text.
MaxWords == 1
\* Rows the files table ever receives (AUTOINCREMENT ids 1..MaxFiles).
MaxFiles == 2
\* Sizes passed to insert_file are 1..MaxSize.
MaxSize == 1

\* Directory entries one traversal meets.
MaxEntries == 3
\* Modification times are 1..MaxTime.
MaxTime == 2
\* scan_directory calls on one FileScanner.
MaxScans == 2
\* Jobs pushed to one IndexQueue.
MaxQueue == 3

\* start_indexing commands that may be in flight at once.
MaxCallers == 2
\* start_indexing calls made in one behaviour.
MaxStarts == 2
\* stop_indexing calls made in one behaviour.
MaxStops == 1
\* Files under the directory of the long run (SpecProgress): 1..MaxJobs.
MaxJobs == 12
\* Words of a text handed to chunk_text: 0..MaxTextWords (two full chunks
\* and a tail of one word).
MaxTextWords == 751
\* export calls on the store (SpecPackage).
MaxExports == 1
\* Commands that take an output path (SpecExportPath).
MaxPathCalls == 2
\* Roots one start_indexing call names (SpecRoots): 1..MaxRoots.
MaxRoots == 3
\* Filesystem events notify hands to the watcher's callback in one behaviour.
MaxWatchEvents == 5
\* try_recv / recv_timeout calls on one FileWatcher.
MaxRecvs == 3
\* Files in the store when generate_all_embeddings is called: 0..MaxEmbedFiles.
MaxEmbedFiles == 3
\* batch_size arguments are None or Some(1..MaxBatchSize).
MaxBatchSize == 2
\* Iterations of the batch loop followed in one call.
MaxBatches == 5
\* Bytes of a text_content get_file_detail previews: 0..MaxTextBytes.
MaxTextBytes == 502

\* ------------------------------------------------------------------ values

Terms == {"databases", "rust"}

\* Paths; the filename of a path is its last component, indexed by FTS as
\* the single token FilenameTerm(path).
Paths == {"alpha.txt", "beta.txt"}

FilenameTerm(path) == IF path = "alpha.txt" THEN "alpha" ELSE "beta"

\* Every term a query may ask for.
QueryTerms == Terms \cup {FilenameTerm(p) : p \in Paths}

RECURSIVE SeqsUpTo(_, _)
SeqsUpTo(S, n) ==
    IF n = 0 THEN {<<>>}
    ELSE LET shorter == SeqsUpTo(S, n - 1)
         IN  shorter \cup {Append(s, x) : s \in {t \in shorter : Len(t) = n - 1}, x \in S}

\* Option<&str>: None is [null |-> TRUE], Some(text) holds the words of the
\* text in order (split_whitespace of the text).
NullText == [null |-> TRUE, words |-> <<>>]

SomeText(w) == [null |-> FALSE, words |-> w]

Texts == {NullText} \cup {SomeText(w) : w \in SeqsUpTo(Terms, MaxWords)}

Range(s) == {s[i] : i \in 1..Len(s)}

\* The sum of count[x] over the elements x of S.
RECURSIVE SumOver(_, _)
SumOver(S, count) ==
    IF S = {} THEN 0
    ELSE LET x == CHOOSE y \in S : TRUE
         IN  count[x] + SumOver(S \ {x}, count)

FileIds == 1..MaxFiles

\* ------------------------------------------------------------------ state

VARIABLES
    \* --- the store: one SQLite connection
    files,          \* table files: set of rows [id, path, size, is_deleted]
    file_content,   \* table file_content: file_id -> text_content
    files_fts,      \* FTS5 index files_fts: rowid -> [filename, content]
    seq,            \* sqlite_sequence of files: the largest id ever assigned
    foreign_keys,   \* PRAGMA foreign_keys of the connection
    last_result,    \* the last store operation: its arguments and outcome
    soft_deleted    \* history: ids mark_file_deleted has been applied to

VARIABLES
    \* --- one FileScanner and the last scan_directory call
    walk,           \* the files under the root, in the order a traversal meets them
    jobs,           \* the Vec<IndexJob> scan_directory returned
    scan_result,    \* "none", "Ok", "FileNotFound" or "Internal"
    progress,       \* FileScanner.progress: [total_files, current_file]
    scans           \* scan_directory calls made on this FileScanner

VARIABLES
    \* --- one IndexQueue
    queue,          \* the jobs in the BinaryHeap
    pushed,         \* number of push calls so far
    popped,         \* the jobs popped since the last push, in pop order
    last_pop        \* "none", "Some" or "None": what the last pop returned

VARIABLES
    \* --- AppState (state.rs) and the tasks working on it
    indexing_active,    \* Arc<RwLock<bool>>
    indexing_progress,  \* Arc<RwLock<Option<ScanProgress>>>
    indexing_errors,    \* Arc<RwLock<Vec<String>>>
    stop_indexing,      \* Arc<RwLock<bool>>
    db_poisoned,        \* whether the std::sync::Mutex around the Database is poisoned
    callers,            \* the start_indexing commands: where each one is
    starts,             \* start_indexing calls made so far
    stop_call,          \* the stop_indexing command: where it is, what it returned
    stops,              \* stop_indexing calls made so far
    tasks,              \* the spawned background tasks, in spawn order
    events,             \* the events emitted to the frontend, in order
    stop_acked          \* history: the tasks that were running when a stop returned Ok

VARIABLES
    \* --- the exporters (export/rake_exporter.rs)
    chunking,       \* one chunk_text call: its text, where the call is, its
                    \* locals and the numbered chunks it ends with
    package,        \* the RakeExportPackage of the last RakeExporter::export and
                    \* the number of export calls so far
    cwd,            \* std::env::current_dir() of the process
    dirs,           \* the directories of the file system
    written,        \* the regular files the exports have written
    export_call,    \* the last export command: its arguments and its result
    validation      \* a validate_export_path call and the call on its result

VARIABLES
    \* --- the other commands (commands/search.rs)
    detail          \* one get_file_detail call: the file_content row it reads,
                    \* its include_full_content and what it returned

VARIABLES
    \* --- one FileWatcher (indexer/watcher.rs)
    channel,        \* the jobs in the bounded crossbeam channel, oldest first
    callback,       \* notify's thread: the events it has handled, whether it
                    \* is blocked in send and with which job
    consumer,       \* the owner of the FileWatcher: whether it still holds
                    \* it, its receive calls and what the last one returned
    undelivered     \* history: the jobs of the events on regular files that
                    \* no receive call has returned yet, oldest first

VARIABLES
    \* --- the vector store and one generate_all_embeddings call
    embeddings,     \* the file ids that have an Embedding
    embed_call      \* the call: its batch_size, the files whose text the
                    \* embedding service fails on, where the call is, its
                    \* total_generated and the batches it has fetched

VARIABLES
    \* --- the export previews (commands/export.rs)
    preview         \* the last preview command and the counts it returned

storeVars == <<files, file_content, files_fts, seq, foreign_keys, last_result,
               soft_deleted>>

scanVars == <<walk, jobs, scan_result, progress, scans>>

queueVars == <<queue, pushed, popped, last_pop>>

pipeVars == <<indexing_active, indexing_progress, indexing_errors, stop_indexing,
              db_poisoned, callers, starts, stop_call, stops, tasks, events,
              stop_acked>>

pathVars == <<cwd, dirs, written, export_call, validation>>

exportVars == <<chunking, package, pathVars>>

watchVars == <<channel, callback, consumer, undelivered>>

embedVars == <<embeddings, embed_call>>

cmdVars == <<detail, watchVars, embedVars, preview>>

vars == <<storeVars, scanVars, queueVars, pipeVars, exportVars, cmdVars>>

\* ------------------------------------------------------------------ scanner

\* indexer/types.rs IndexPriority: Low = 0, Normal = 1, High = 2, Immediate = 3.
Low == 0
Normal == 1
High == 2
Immediate == 3

\* indexer/types.rs IndexPriority::from_size.
from_size(size) ==
    IF size < 1000000 THEN Immediate
    ELSE IF size < 10000000 THEN High
    ELSE IF size < 100000000 THEN Normal
    ELSE Low

\* indexer/scanner.rs FileScanner::new: max_file_size.
max_file_size == 100000000

\* File sizes on disk: one per priority band, and one above max_file_size.
SizeSamples == {500000, 5000000, 50000000, 100000000, 150000000}

\* indexer/types.rs IndexJob::new.
IndexJob(path, size, modified) ==
    [path |-> path, priority |-> from_size(size), size |-> size, modified |-> modified]

\* A regular file the traversal meets: whether its extension is in
\* SUPPORTED_EXTENSIONS, its size and modification time.  (Hidden entries and
\* ignored directories are pruned by should_visit before either pass.)
Entries == [supported : BOOLEAN, size : SizeSamples, modified : 1..MaxTime]

Listings == UNION {[1..n -> Entries] : n \in 0..MaxEntries}

\* indexer/scanner.rs FileScanner::process_entry: the job of the i-th entry,
\* if it is a supported file no larger than max_file_size.
process_entry(entries, i) ==
    IF entries[i].supported /\ ~(entries[i].size > max_file_size)
    THEN <<IndexJob(i, entries[i].size, entries[i].modified)>>
    ELSE <<>>

\* The second pass of scan_directory: the jobs pushed, in traversal order.
RECURSIVE collect(_, _)
collect(entries, n) ==
    IF n = 0 THEN <<>> ELSE collect(entries, n - 1) \o process_entry(entries, n)

\* The comparator given to sort_by, |a, b| b.priority.cmp(&a.priority), as
\* "a must not come after b": Ordering::Less or Equal.
PriorityDescLeq(a, b) == b.priority <= a.priority

\* The comparator the ordering (priority DESC, modified DESC) would need.
priority_then_modified_leq(a, b) ==
    \/ b.priority < a.priority
    \/ b.priority = a.priority /\ b.modified <= a.modified

\* Vec::sort_by is a stable sort: insert x after the last element that must
\* not come after it.
RECURSIVE insert_stable(_, _)
insert_stable(sorted, x) ==
    IF sorted = <<>> THEN <<x>>
    ELSE LET last == sorted[Len(sorted)]
         IN  IF PriorityDescLeq(last, x)
             THEN Append(sorted, x)
             ELSE Append(insert_stable(SubSeq(sorted, 1, Len(sorted) - 1), x), last)

RECURSIVE sort_by_priority(_)
sort_by_priority(js) ==
    IF js = <<>> THEN <<>>
    ELSE insert_stable(sort_by_priority(SubSeq(js, 1, Len(js) - 1)), js[Len(js)])

\* indexer/scanner.rs FileScanner::count_files: every regular file visited.
count_files(entries) == Len(entries)

\* indexer/scanner.rs FileScanner::scan_directory on an existing directory.
scan_directory(entries) == sort_by_priority(collect(entries, Len(entries)))

ScanIdle ==
    /\ walk = <<>>
    /\ jobs = <<>>
    /\ scan_result = "none"
    /\ progress = [total_files |-> 0, current_file |-> 0]
    /\ scans = 0

ScanInit ==
    /\ walk \in Listings
    /\ jobs = <<>>
    /\ scan_result = "none"
    /\ progress = [total_files |-> 0, current_file |-> 0]
    /\ scans = 0

\* scan_directory(root) for a root that is a directory: the first pass sets
\* progress.total_files, the second pushes the jobs and counts each in
\* progress.current_file (update_current), then the jobs are sorted.
ScanDirectory ==
    /\ scans < MaxScans
    /\ scans' = scans + 1
    /\ jobs' = scan_directory(walk)
    /\ scan_result' = "Ok"
    /\ progress' = [total_files |-> count_files(walk),
                    current_file |-> progress.current_file + Len(collect(walk, Len(walk)))]
    /\ UNCHANGED walk

\* scan_directory(root) for a root that does not exist or is not a directory.
ScanDirectoryFails ==
    \E e \in {"FileNotFound", "Internal"} :
        /\ scans < MaxScans
        /\ scans' = scans + 1
        /\ scan_result' = e
        /\ jobs' = <<>>
        /\ UNCHANGED <<walk, progress>>

\* ------------------------------------------------------------------ queue

\* indexer/scanner.rs impl Ord for PriorityJob: cmp(self, other) as
\* "self >= other":
\*   self.job.priority.cmp(&other.job.priority)
\*       .then_with(|| other.job.modified.cmp(&self.job.modified))
PriorityJobGeq(self, other) ==
    \/ self.priority > other.priority
    \/ self.priority = other.priority /\ other.modified >= self.modified

QueueInit ==
    /\ queue = <<>>
    /\ pushed = 0
    /\ popped = <<>>
    /\ last_pop = "none"

\* IndexQueue::push.
QueuePush ==
    \E size \in SizeSamples, modified \in 1..MaxTime :
        /\ pushed < MaxQueue
        /\ queue' = Append(queue, IndexJob(pushed + 1, size, modified))
        /\ pushed' = pushed + 1
        /\ popped' = <<>>
        /\ last_pop' = "none"

\* IndexQueue::extend: push every job of the Vec.
QueueExtend ==
    \E s1, s2 \in SizeSamples, m1, m2 \in 1..MaxTime :
        /\ pushed + 2 <= MaxQueue
        /\ queue' = queue \o <<IndexJob(pushed + 1, s1, m1), IndexJob(pushed + 2, s2, m2)>>
        /\ pushed' = pushed + 2
        /\ popped' = <<>>
        /\ last_pop' = "none"

\* IndexQueue::pop on BinaryHeap<PriorityJob>: a greatest element by
\* PriorityJob::cmp (any of them when several compare equal), or None.
QueuePop ==
    \/ /\ queue = <<>>
       /\ last_pop' = "None"
       /\ UNCHANGED <<queue, pushed, popped>>
    \/ \E i \in 1..Len(queue) :
          /\ \A k \in 1..Len(queue) : PriorityJobGeq(queue[i], queue[k])
          /\ queue' = SubSeq(queue, 1, i - 1) \o SubSeq(queue, i + 1, Len(queue))
          /\ popped' = Append(popped, queue[i])
          /\ last_pop' = "Some"
          /\ UNCHANGED pushed

\* ------------------------------------------------------------------ store

\* db/schema.rs 57-66: the columns of table file_content.
ContentTableColumns == {"file_id", "text_content", "word_count", "summary"}

\* db/schema.rs 70-76: files_fts is an external-content FTS5 table
\* (content='file_content', content_rowid='file_id') with these columns.
FtsColumns == {"filename", "content"}

\* An external-content FTS5 table keeps only the inverted index.  Whenever
\* it needs the column values of a row (to delete or update the row's index
\* entries, or to build a snippet) it reads them from the content table BY
\* THE FTS COLUMN NAMES:
\*     SELECT T.filename, T.content FROM file_content T WHERE T.file_id = ?
\* file_content has no such columns, so that read fails ("no such column:
\* T.filename") and the statement that needed it fails with it.
FtsContentReadable == FtsColumns \subseteq ContentTableColumns

DbState == [files |-> files, file_content |-> file_content,
            files_fts |-> files_fts, seq |-> seq]

FileRow(db, id) == CHOOSE f \in db.files : f.id = id

FileExists(db, id) == \E f \in db.files : f.id = id

Ok(db, id) == [ok |-> TRUE, err |-> "none", id |-> id, db |-> db]

Err(db, e) == [ok |-> FALSE, err |-> e, id |-> 0, db |-> db]

\* insert_file as INSERT OR REPLACE: a row with the same path is replaced by
\* the new row.
insert_or_replace_file(db, path, size) ==
    LET id == db.seq + 1
    IN  Ok([db EXCEPT !.files = {f \in @ : f.path # path}
                                   \cup {[id |-> id, path |-> path, size |-> size,
                                          is_deleted |-> FALSE]},
                      !.seq = id], id)

\* db/operations.rs insert_file: INSERT INTO files (...); path is UNIQUE,
\* id is INTEGER PRIMARY KEY AUTOINCREMENT (never reused), is_deleted
\* DEFAULT 0.  A constraint failure is rusqlite::Error -> DatabaseError.
insert_file(db, path, size) ==
    IF \E f \in db.files : f.path = path
    THEN Err(db, "DatabaseError")
    ELSE LET id == db.seq + 1
         IN  Ok([db EXCEPT !.files = @ \cup {[id |-> id, path |-> path, size |-> size,
                                                is_deleted |-> FALSE]},
                           !.seq = id], id)

\* db/schema.rs trigger files_fts_insert (AFTER INSERT ON file_content):
\*   INSERT INTO files_fts(rowid, filename, content)
\*   SELECT f.id, f.filename, new.text_content FROM files f WHERE f.id = new.file_id
\* One FTS row per files row with that id, whatever its is_deleted and
\* whether or not text_content is NULL.
files_fts_insert(db, file_id, text) ==
    IF FileExists(db, file_id)
    THEN [db EXCEPT !.files_fts =
            [r \in DOMAIN @ \cup {file_id} |->
                IF r = file_id
                THEN [filename |-> FileRow(db, file_id).path, content |-> text]
                ELSE @[r]]]
    ELSE db

\* db/schema.rs trigger files_fts_update (AFTER UPDATE ON file_content):
\*   UPDATE files_fts SET content = new.text_content WHERE rowid = new.file_id
\* The UPDATE of an external-content FTS5 table reads the row through the
\* content table first.
files_fts_update(db, file_id, text) ==
    IF ~FtsContentReadable
    THEN Err(db, "DatabaseError")
    ELSE Ok(IF file_id \in DOMAIN db.files_fts
            THEN [db EXCEPT !.files_fts[file_id].content = text]
            ELSE db, file_id)

\* db/schema.rs trigger files_fts_delete (AFTER DELETE ON file_content):
\*   DELETE FROM files_fts WHERE rowid = old.file_id
files_fts_delete(db, file_id) ==
    IF ~FtsContentReadable
    THEN Err(db, "DatabaseError")
    ELSE Ok([db EXCEPT !.files_fts = [r \in DOMAIN @ \ {file_id} |-> @[r]]], file_id)

\* db/operations.rs upsert_file_content:
\*   INSERT INTO file_content ... ON CONFLICT(file_id) DO UPDATE SET ...
\* A failing trigger fails the statement, which changes nothing.
upsert_file_content(db, fk, file_id, text) ==
    IF file_id \in DOMAIN db.file_content
    THEN LET updated == [db EXCEPT !.file_content[file_id] = text]
             trig == files_fts_update(updated, file_id, text)
         IN  IF trig.ok THEN trig ELSE Err(db, trig.err)
    ELSE IF fk /\ ~FileExists(db, file_id)
         THEN Err(db, "DatabaseError")
         ELSE LET inserted ==
                    [db EXCEPT !.file_content =
                        [r \in DOMAIN @ \cup {file_id} |->
                            IF r = file_id THEN text ELSE @[r]]]
              IN  Ok(files_fts_insert(inserted, file_id, text), file_id)

\* db/operations.rs update_file with Some(size):
\*   UPDATE files SET size = ?, last_indexed = ? WHERE id = ?
update_file(db, file_id, size) ==
    Ok([db EXCEPT !.files =
            {IF f.id = file_id THEN [f EXCEPT !.size = size] ELSE f : f \in @}],
       file_id)

\* db/operations.rs mark_file_deleted: UPDATE files SET is_deleted = 1.
mark_file_deleted(db, file_id) ==
    Ok([db EXCEPT !.files =
            {IF f.id = file_id THEN [f EXCEPT !.is_deleted = TRUE] ELSE f : f \in @}],
       file_id)

\* db/operations.rs delete_file: DELETE FROM files WHERE id = ?1.  With
\* foreign keys enforced, ON DELETE CASCADE (db/schema.rs 63) deletes the
\* file_content row, which fires files_fts_delete; without, the
\* file_content row and the FTS row stay.
delete_file(db, fk, file_id) ==
    LET removed == [db EXCEPT !.files = {f \in @ : f.id # file_id}]
    IN  IF fk /\ FileExists(db, file_id) /\ file_id \in DOMAIN db.file_content
        THEN LET cascaded ==
                    [removed EXCEPT !.file_content =
                        [r \in DOMAIN @ \ {file_id} |-> @[r]]]
                 trig == files_fts_delete(cascaded, file_id)
             IN  IF trig.ok THEN trig ELSE Err(db, trig.err)
        ELSE Ok(removed, file_id)

\* list_files without its WHERE is_deleted = 0.
list_files_unfiltered(db) == db.files

\* db/operations.rs list_files: ... FROM files WHERE is_deleted = 0 (the
\* export asks for limit 10000, offset 0: every row).
list_files(db) == {f \in db.files : ~f.is_deleted}

\* db/operations.rs get_file_count.
get_file_count(db) == Cardinality({f \in db.files : ~f.is_deleted})

\* db/operations.rs get_indexed_file_count: files INNER JOIN file_content.
get_indexed_file_count(db) ==
    Cardinality({f.id : f \in {g \in db.files :
                                 ~g.is_deleted /\ g.id \in DOMAIN db.file_content}})

\* The non-deleted files get_db_stats sums and counts.
StatsRows(db) == {f \in db.files : ~f.is_deleted}

get_db_stats_counting_deleted_content(db) ==
    [total_files |-> get_file_count(db),
     indexed_files |-> Cardinality(DOMAIN db.file_content),
     total_size_bytes |-> SumOver(StatsRows(db), [f \in StatsRows(db) |-> f.size])]

\* db/operations.rs get_db_stats: (total_files, indexed_files, total_size),
\* total_size being COALESCE(SUM(size), 0) over the non-deleted rows.
get_db_stats(db) ==
    [total_files |-> get_file_count(db),
     indexed_files |-> get_indexed_file_count(db),
     total_size_bytes |-> SumOver(StatsRows(db), [f \in StatsRows(db) |-> f.size])]

\* Whether the FTS row matches the one-term query q: the term occurs in the
\* indexed filename or in the indexed content.
FtsMatch(row, q) ==
    \/ q = FilenameTerm(row.filename)
    \/ ~row.content.null /\ q \in Range(row.content.words)

\* db/operations.rs search_files_fts and commands/search.rs
\* perform_filtered_search: the rows that pass
\*   FROM files_fts INNER JOIN files f ON files_fts.rowid = f.id
\*   WHERE files_fts MATCH ?1 AND f.is_deleted = 0
SearchRows(db, q) ==
    {r \in DOMAIN db.files_fts :
        /\ FtsMatch(db.files_fts[r], q)
        /\ \E f \in db.files : f.id = r /\ ~f.is_deleted}

\* The result: snippet(files_fts, 1, ...) is evaluated for every row that
\* passes, and reads the row's text through the content table.
search_files_fts(db, q) ==
    IF SearchRows(db, q) # {} /\ ~FtsContentReadable
    THEN [ok |-> FALSE, rows |-> {}]
    ELSE [ok |-> TRUE, rows |-> SearchRows(db, q)]

\* export/rake_exporter.rs get_files_for_export.
get_files_for_export(db) == list_files(db)

\* export/rake_exporter.rs export / convert_file_to_chunks: the document
\* ids of the chunks: the exported files whose text_content is not NULL.
ExportChunkDocs(db) ==
    {f.id : f \in {g \in get_files_for_export(db) :
                     g.id \in DOMAIN db.file_content /\ ~db.file_content[g.id].null}}

EmptyFn == [x \in {} |-> NullText]

StoreInit ==
    /\ files = {}
    /\ file_content = EmptyFn
    /\ files_fts = [x \in {} |-> [filename |-> "alpha.txt", content |-> NullText]]
    /\ seq = 0
    /\ foreign_keys \in BOOLEAN
    /\ last_result = [op |-> "none", ok |-> TRUE, err |-> "none", id |-> 0,
                      path |-> "", text |-> NullText]
    /\ soft_deleted = {}

Apply(res, op, id, path, text) ==
    /\ files' = res.db.files
    /\ file_content' = res.db.file_content
    /\ files_fts' = res.db.files_fts
    /\ seq' = res.db.seq
    /\ last_result' = [op |-> op, ok |-> res.ok, err |-> res.err, id |-> id,
                       path |-> path, text |-> text]
    /\ UNCHANGED foreign_keys

InsertFile ==
    \E path \in Paths, size \in 1..MaxSize :
        /\ seq < MaxFiles
        /\ LET res == insert_file(DbState, path, size)
           IN  Apply(res, "insert_file", res.id, path, NullText)
        /\ UNCHANGED soft_deleted

UpsertFileContent ==
    \E id \in FileIds, text \in Texts :
        /\ Apply(upsert_file_content(DbState, foreign_keys, id, text),
                 "upsert_file_content", id, "", text)
        /\ UNCHANGED soft_deleted

MarkFileDeleted ==
    \E id \in FileIds :
        /\ Apply(mark_file_deleted(DbState, id), "mark_file_deleted", id, "", NullText)
        /\ soft_deleted' = IF FileExists(DbState, id) THEN soft_deleted \cup {id}
                           ELSE soft_deleted

DeleteFile ==
    \E id \in FileIds :
        /\ Apply(delete_file(DbState, foreign_keys, id), "delete_file", id, "", NullText)
        /\ UNCHANGED soft_deleted

UpdateFile ==
    \E id \in FileIds, size \in 1..MaxSize :
        /\ Apply(update_file(DbState, id, size), "update_file", id, "", NullText)
        /\ UNCHANGED soft_deleted

\* ------------------------------------------------------------------ pipeline

\* The roots a start_indexing call may name: two directories, a regular
\* file and a path that does not exist.
RootKind(root) ==
    IF root \in {"docs", "notes"} THEN "dir"
    ELSE IF root = "readme.md" THEN "file"
    ELSE "absent"

\* The files under each directory, in traversal order.
RootListing(root) ==
    IF root = "docs"
    THEN <<[supported |-> TRUE, size |-> 50000000, modified |-> 1]>>
    ELSE IF root = "notes"
    THEN <<[supported |-> TRUE, size |-> 500000, modified |-> 1]>>
    ELSE <<>>

RootPaths(root) ==
    IF root = "docs" THEN <<"docs/manual.txt">>
    ELSE <<"notes/todo.md">>

\* The paths argument of a start_indexing call.
StartPaths == {<<"docs", "notes">>, <<"missing", "readme.md">>}

\* scanner.scan_directory(&path) as run_indexing_pipeline calls it: Err for
\* a root that is missing or is not a directory, else the sorted jobs, each
\* with the path of its file.
scan_root(root) ==
    IF RootKind(root) = "absent" THEN [ok |-> FALSE, err |-> "FileNotFound", jobs |-> <<>>]
    ELSE IF RootKind(root) = "file" THEN [ok |-> FALSE, err |-> "Internal", jobs |-> <<>>]
    ELSE LET js == scan_directory(RootListing(root))
         IN  [ok |-> TRUE, err |-> "none",
              jobs |-> [i \in 1..Len(js) |-> [js[i] EXCEPT !.path = RootPaths(root)[@]]]]

Callers == 1..MaxCallers

IdleCaller(result) == [pc |-> "idle", paths |-> <<>>, result |-> result]

\* The task tokio::spawn creates: the locals of run_indexing_pipeline and
\* where the task is.  extracted is the history of the jobs handed to
\* ContentExtractor::extract, in order.
NewTask(paths) ==
    [pc |-> "scan", paths |-> paths, root |-> 1, all_jobs |-> <<>>, idx |-> 0,
     indexed_count |-> 0, extracted |-> <<>>,
     stats |-> [total_files |-> 0, indexed_files |-> 0]]

Running(t) == tasks[t].pc \notin {"done", "panicked"}

RunningTasks == {t \in DOMAIN tasks : Running(t)}

NoneProgress == [some |-> FALSE, total_files |-> 0, current_file |-> 0]

SomeProgress(total, current) ==
    [some |-> TRUE, total_files |-> total, current_file |-> current]

\* (current_file as f64 / total_files as f64) * 100.0, kept as the exact
\* fraction num / den.
progress_percentage(current_file, total_files) ==
    [num |-> current_file * 100, den |-> total_files]

\* An emitted event with the fields of its payload; run is the task that
\* emitted it.  Only indexing:progress carries a percentage, which JobProgress
\* fills in.
Event(name, t, total, indexed, file, errors) ==
    [name |-> name, run |-> t, total_files |-> total, indexed_files |-> indexed,
     file |-> file, errors |-> errors,
     percentage |-> progress_percentage(0, 1)]

PipelineInit ==
    /\ indexing_active = FALSE
    /\ indexing_progress = NoneProgress
    /\ indexing_errors = <<>>
    /\ stop_indexing = FALSE
    /\ db_poisoned = FALSE
    /\ callers = [c \in Callers |-> IdleCaller("none")]
    /\ starts = 0
    /\ stop_call = [pc |-> "idle", result |-> "none"]
    /\ stops = 0
    /\ tasks = <<>>
    /\ events = <<>>
    /\ stop_acked = {}

\* A write guard on indexing_active waits while stop_indexing holds its read
\* guard.
CanWriteActive == stop_call.pc # "holding"

\* start_indexing, lines 50-55: read indexing_active; reject when it is set.
StartIndexingCheck(c) ==
    \E paths \in StartPaths :
        /\ callers[c].pc = "idle"
        /\ starts < MaxStarts
        /\ starts' = starts + 1
        /\ callers' = [callers EXCEPT ![c] =
                          IF indexing_active THEN IdleCaller("IndexingInProgress")
                          ELSE [pc |-> "reset_active", paths |-> paths, result |-> "none"]]
        /\ UNCHANGED <<storeVars, indexing_active, indexing_progress, indexing_errors,
                       stop_indexing, db_poisoned, stop_call, stops, tasks, events,
                       stop_acked>>

\* reset_indexing_state, first write: *indexing_active = false.
ResetIndexingActive(c) ==
    /\ callers[c].pc = "reset_active"
    /\ CanWriteActive
    /\ indexing_active' = FALSE
    /\ callers' = [callers EXCEPT ![c].pc = "reset_progress"]
    /\ UNCHANGED <<storeVars, indexing_progress, indexing_errors, stop_indexing,
                   db_poisoned, starts, stop_call, stops, tasks, events,
                   stop_acked>>

\* reset_indexing_state, second write: *indexing_progress = None.
ResetIndexingProgress(c) ==
    /\ callers[c].pc = "reset_progress"
    /\ indexing_progress' = NoneProgress
    /\ callers' = [callers EXCEPT ![c].pc = "reset_errors"]
    /\ UNCHANGED <<storeVars, indexing_active, indexing_errors, stop_indexing,
                   db_poisoned, starts, stop_call, stops, tasks, events,
                   stop_acked>>

\* reset_indexing_state, third write: *indexing_errors = Vec::new().
ResetIndexingErrors(c) ==
    /\ callers[c].pc = "reset_errors"
    /\ indexing_errors' = <<>>
    /\ callers' = [callers EXCEPT ![c].pc = "reset_stop"]
    /\ UNCHANGED <<storeVars, indexing_active, indexing_progress, stop_indexing,
                   db_poisoned, starts, stop_call, stops, tasks, events,
                   stop_acked>>

\* reset_indexing_state, fourth write: *stop_indexing = false.
ResetStopIndexing(c) ==
    /\ callers[c].pc = "reset_stop"
    /\ stop_indexing' = FALSE
    /\ callers' = [callers EXCEPT ![c].pc = "set_active"]
    /\ UNCHANGED <<storeVars, indexing_active, indexing_progress, indexing_errors,
                   db_poisoned, starts, stop_call, stops, tasks, events,
                   stop_acked>>

\* start_indexing, lines 59-122: *indexing_active = true, tokio::spawn of
\* the background task, Ok("Indexing started in background").
SetActiveAndSpawn(c) ==
    /\ callers[c].pc = "set_active"
    /\ CanWriteActive
    /\ indexing_active' = TRUE
    /\ tasks' = Append(tasks, NewTask(callers[c].paths))
    /\ callers' = [callers EXCEPT ![c] = IdleCaller("Ok")]
    /\ UNCHANGED <<storeVars, indexing_progress, indexing_errors, stop_indexing,
                   db_poisoned, starts, stop_call, stops, events, stop_acked>>

\* stop_indexing, lines 128-132: take the read guard of indexing_active
\* (kept to the end of the command); Err when no run is active.
StopIndexingCheck ==
    /\ stop_call.pc = "idle"
    /\ stops < MaxStops
    /\ stops' = stops + 1
    /\ stop_call' = IF indexing_active
                    THEN [pc |-> "holding", result |-> "none"]
                    ELSE [pc |-> "idle", result |-> "No indexing operation in progress"]
    /\ UNCHANGED <<storeVars, indexing_active, indexing_progress, indexing_errors,
                   stop_indexing, db_poisoned, callers, starts, tasks, events,
                   stop_acked>>

\* stop_indexing, lines 135-137: *stop_indexing = true, Ok.
StopIndexingSet ==
    /\ stop_call.pc = "holding"
    /\ stop_indexing' = TRUE
    /\ stop_call' = [pc |-> "idle", result |-> "Ok"]
    /\ stop_acked' = stop_acked \cup RunningTasks
    /\ UNCHANGED <<storeVars, indexing_active, indexing_progress, indexing_errors,
                   db_poisoned, callers, starts, stops, tasks, events>>

\* get_index_status, lines 142-165: the IndexStatus it returns in the
\* current state (it changes nothing).
get_index_status ==
    [is_active |-> indexing_active,
     total_files |-> IF indexing_progress.some THEN indexing_progress.total_files ELSE 0,
     indexed_files |-> IF indexing_progress.some THEN indexing_progress.current_file ELSE 0,
     errors |-> indexing_errors,
     progress_percentage |->
         IF indexing_progress.some /\ indexing_progress.total_files # 0
         THEN progress_percentage(indexing_progress.current_file,
                                  indexing_progress.total_files)
         ELSE progress_percentage(0, 1)]

SetTask(t, r) == tasks' = [tasks EXCEPT ![t] = r]

\* The next root when a root that fails ended the run (as Err(..)? on the
\* scan would).
ScanRootAborting(t) ==
    /\ tasks[t].pc = "scan"
    /\ tasks[t].root <= Len(tasks[t].paths)
    /\ LET root == tasks[t].paths[tasks[t].root]
           res == scan_root(root)
       IN  IF res.ok
           THEN /\ SetTask(t, [tasks[t] EXCEPT !.all_jobs = @ \o res.jobs,
                                               !.pc = "scan_stop"])
                /\ UNCHANGED indexing_errors
           ELSE /\ indexing_errors' = Append(indexing_errors, <<"Failed to scan", root>>)
                /\ SetTask(t, [tasks[t] EXCEPT
                                  !.stats = [total_files |-> Len(tasks[t].all_jobs),
                                             indexed_files |-> 0],
                                  !.pc = "complete"])
    /\ UNCHANGED <<storeVars, indexing_active, indexing_progress, stop_indexing,
                   db_poisoned, callers, starts, stop_call, stops, events,
                   stop_acked>>

\* run_indexing_pipeline, lines 184-204: the next root.  A path that does
\* not exist pushes an error and continues with the following root (no stop
\* check); otherwise the root is scanned and its jobs are appended to
\* all_jobs, or the scan's error is pushed.
ScanRoot(t) ==
    /\ tasks[t].pc = "scan"
    /\ tasks[t].root <= Len(tasks[t].paths)
    /\ LET root == tasks[t].paths[tasks[t].root]
           res == scan_root(root)
       IN  IF RootKind(root) = "absent"
           THEN /\ indexing_errors' = Append(indexing_errors, <<"Path does not exist", root>>)
                /\ SetTask(t, [tasks[t] EXCEPT !.root = @ + 1])
           ELSE IF res.ok
           THEN /\ SetTask(t, [tasks[t] EXCEPT !.all_jobs = @ \o res.jobs,
                                               !.pc = "scan_stop"])
                /\ UNCHANGED indexing_errors
           ELSE /\ indexing_errors' = Append(indexing_errors, <<"Failed to scan", root>>)
                /\ SetTask(t, [tasks[t] EXCEPT !.pc = "scan_stop"])
    /\ UNCHANGED <<storeVars, indexing_active, indexing_progress, stop_indexing,
                   db_poisoned, callers, starts, stop_call, stops, events,
                   stop_acked>>

\* run_indexing_pipeline, lines 206-213: the stop check after a scanned root.
ScanStopCheck(t) ==
    /\ tasks[t].pc = "scan_stop"
    /\ SetTask(t, IF stop_indexing
                  THEN [tasks[t] EXCEPT
                           !.stats = [total_files |-> Len(tasks[t].all_jobs),
                                      indexed_files |-> 0],
                           !.pc = "complete"]
                  ELSE [tasks[t] EXCEPT !.root = @ + 1, !.pc = "scan"])
    /\ UNCHANGED <<storeVars, indexing_active, indexing_progress, indexing_errors,
                   stop_indexing, db_poisoned, callers, starts, stop_call, stops,
                   events, stop_acked>>

\* run_indexing_pipeline, lines 216-226: after the last root,
\* *progress = Some(ScanProgress { total_files, current_file: 0 }).
SetProgress(t) ==
    /\ tasks[t].pc = "scan"
    /\ tasks[t].root > Len(tasks[t].paths)
    /\ indexing_progress' = SomeProgress(Len(tasks[t].all_jobs), 0)
    /\ SetTask(t, [tasks[t] EXCEPT !.pc = "job_stop"])
    /\ UNCHANGED <<storeVars, indexing_active, indexing_errors, stop_indexing,
                   db_poisoned, callers, starts, stop_call, stops, events,
                   stop_acked>>

\* run_indexing_pipeline, lines 231-236 and 353-356: the loop ends after the
\* last job, or breaks when the stop flag is set; either way the function
\* returns Ok(IndexingStats { total_files, indexed_files: indexed_count }).
JobStopCheck(t) ==
    /\ tasks[t].pc = "job_stop"
    /\ SetTask(t, IF tasks[t].idx = Len(tasks[t].all_jobs) \/ stop_indexing
                  THEN [tasks[t] EXCEPT
                           !.stats = [total_files |-> Len(tasks[t].all_jobs),
                                      indexed_files |-> tasks[t].indexed_count],
                           !.pc = "complete"]
                  ELSE [tasks[t] EXCEPT !.pc = "job_progress"])
    /\ UNCHANGED <<storeVars, indexing_active, indexing_progress, indexing_errors,
                   stop_indexing, db_poisoned, callers, starts, stop_call, stops,
                   events, stop_acked>>

emits_progress_first_and_tenth(idx, total_files) ==
    idx = 0 \/ idx % 10 = 0

\* run_indexing_pipeline, line 250: whether job idx (0-based) of total_files
\* jobs emits indexing:progress.
emits_progress(idx, total_files) ==
    idx = 0 \/ idx = total_files - 1 \/ idx % 10 = 0

\* run_indexing_pipeline, lines 238-260: progress for job idx (0-based) and
\* the indexing:progress event on the first, the last and every tenth job.
JobProgress(t) ==
    /\ tasks[t].pc = "job_progress"
    /\ LET total == Len(tasks[t].all_jobs)
           idx == tasks[t].idx
           job == tasks[t].all_jobs[idx + 1]
       IN  /\ indexing_progress' = SomeProgress(total, idx + 1)
           /\ events' = IF emits_progress(idx, total)
                        THEN Append(events,
                                    [Event("indexing:progress", t, total,
                                           tasks[t].indexed_count, job.path, <<>>)
                                        EXCEPT !.percentage =
                                            progress_percentage(idx + 1, total)])
                        ELSE events
    /\ SetTask(t, [tasks[t] EXCEPT !.pc = "extract"])
    /\ UNCHANGED <<storeVars, indexing_active, indexing_errors, stop_indexing,
                   db_poisoned, callers, starts, stop_call, stops, stop_acked>>

\* run_indexing_pipeline, lines 263-281: ContentExtractor::extract(&job.path).
\*   "Ok"     Ok(content);
\*   "Err"    the error is pushed, indexing:error is emitted, continue;
\*   "panic"  the first non-empty line is longer than 200 bytes and byte 200
\*            is inside a multi-byte character: generate_summary
\*            (indexer/extractors/mod.rs 60-61) slices &first_para[..200],
\*            which panics and unwinds the task.
Extract(t) ==
    \E outcome \in {"Ok", "Err", "panic"} :
        /\ tasks[t].pc = "extract"
        /\ LET job == tasks[t].all_jobs[tasks[t].idx + 1]
               began == [tasks[t] EXCEPT !.extracted = Append(@, job)]
           IN  IF outcome = "Err"
               THEN /\ indexing_errors' =
                          Append(indexing_errors, <<"Failed to extract", job.path>>)
                    /\ events' = Append(events, Event("indexing:error", t, 0, 0,
                                                      job.path, <<>>))
                    /\ SetTask(t, [began EXCEPT !.idx = @ + 1, !.pc = "job_stop"])
               ELSE IF outcome = "panic"
               THEN /\ SetTask(t, [began EXCEPT !.pc = "panicked"])
                    /\ UNCHANGED <<indexing_errors, events>>
               ELSE /\ SetTask(t, [began EXCEPT !.pc = "store"])
                    /\ UNCHANGED <<indexing_errors, events>>
        /\ UNCHANGED <<storeVars, indexing_active, indexing_progress, stop_indexing,
                       db_poisoned, callers, starts, stop_call, stops, stop_acked>>

\* run_indexing_pipeline, lines 310-350: state.db.lock().unwrap() panics on
\* a poisoned mutex; otherwise insert_file, then upsert_file_content with
\* Some(text); Ok counts the job, Err pushes the error.  Each statement
\* commits on its own (no transaction is opened); the second one may fail
\* for a reason outside the store (disk full, I/O error), and then changes
\* nothing: io_error says whether it does.
Store(t, io_error) ==
    /\ tasks[t].pc = "store"
    /\ IF db_poisoned
       THEN /\ ~io_error
            /\ SetTask(t, [tasks[t] EXCEPT !.pc = "panicked"])
            /\ UNCHANGED <<storeVars, indexing_errors>>
       ELSE LET job == tasks[t].all_jobs[tasks[t].idx + 1]
                text == SomeText(<<"rust">>)
                ins == insert_file(DbState, job.path, job.size)
                res == IF ~ins.ok THEN ins
                       ELSE IF io_error THEN Err(ins.db, "DatabaseError")
                       ELSE upsert_file_content(ins.db, foreign_keys, ins.id, text)
            IN  /\ io_error => ins.ok
                /\ Apply(res, IF ins.ok THEN "upsert_file_content" ELSE "insert_file",
                         ins.id, job.path, text)
                /\ UNCHANGED soft_deleted
                /\ indexing_errors' =
                      IF res.ok THEN indexing_errors
                      ELSE Append(indexing_errors,
                                  <<IF ins.ok THEN "Failed to insert content"
                                    ELSE "Failed to insert file", job.path>>)
                /\ SetTask(t, [tasks[t] EXCEPT
                                  !.indexed_count = IF res.ok THEN @ + 1 ELSE @,
                                  !.idx = @ + 1, !.pc = "job_stop"])
    /\ UNCHANGED <<indexing_active, indexing_progress, stop_indexing, db_poisoned,
                   callers, starts, stop_call, stops, events, stop_acked>>

\* The spawned task, lines 88-107: run_indexing_pipeline returned Ok(stats)
\* (it has no path that returns Err); emit indexing:complete.
EmitComplete(t) ==
    /\ tasks[t].pc = "complete"
    /\ events' = Append(events, Event("indexing:complete", t, tasks[t].stats.total_files,
                                      tasks[t].stats.indexed_files, "", indexing_errors))
    /\ SetTask(t, [tasks[t] EXCEPT !.pc = "clear"])
    /\ UNCHANGED <<storeVars, indexing_active, indexing_progress, indexing_errors,
                   stop_indexing, db_poisoned, callers, starts, stop_call, stops,
                   stop_acked>>

\* The spawned task, line 119: *indexing_active = false.
ClearActive(t) ==
    /\ tasks[t].pc = "clear"
    /\ CanWriteActive
    /\ indexing_active' = FALSE
    /\ SetTask(t, [tasks[t] EXCEPT !.pc = "done"])
    /\ UNCHANGED <<storeVars, indexing_progress, indexing_errors, stop_indexing,
                   db_poisoned, callers, starts, stop_call, stops, events,
                   stop_acked>>

\* commands/search.rs get_file_detail, lines 106-121, on a stored file
\* whose text has byte 500 inside a multi-byte character: with the db mutex
\* held, the preview &text[..500.min(text.len())] panics, and the panic
\* poisons the mutex.  (Every other outcome of the command leaves the state
\* as it is.)
GetFileDetail ==
    \E file_id \in DOMAIN file_content :
        /\ ~db_poisoned
        /\ FileExists(DbState, file_id)
        /\ ~file_content[file_id].null
        /\ db_poisoned' = TRUE
        /\ UNCHANGED <<storeVars, indexing_active, indexing_progress, indexing_errors,
                       stop_indexing, callers, starts, stop_call, stops, tasks, events,
                       stop_acked>>

\* -------------------------------------------------------------------- export

\* A text is a sequence of characters; Space stands for any whitespace
\* character, every other character is part of a word.
Space == " "

\* str::split_whitespace: the maximal runs of non-whitespace characters, in
\* order.
split_whitespace(text) ==
    LET n == Len(text)
        idx == [i \in 1..n |-> i]
        word_starts == SelectSeq(idx, LAMBDA i : text[i] # Space /\ (i = 1 \/ text[i - 1] = Space))
        word_ends == SelectSeq(idx, LAMBDA i : text[i] # Space /\ (i = n \/ text[i + 1] = Space))
    IN  [k \in 1..Len(word_starts) |-> SubSeq(text, word_starts[k], word_ends[k])]

\* <[&str]>::join(" "): the words with one Space between neighbours.
RECURSIVE join(_)
join(words) ==
    IF words = <<>> THEN <<>>
    ELSE IF Len(words) = 1 THEN words[1]
    ELSE LET half == Len(words) \div 2
         IN  join(SubSeq(words, 1, half)) \o <<Space>>
                \o join(SubSeq(words, half + 1, Len(words)))

words_per_chunk_as_tokens(target_tokens) == target_tokens

\* chunk_text, line 161: (target_tokens as f32 * 0.75) as usize.
words_per_chunk(target_tokens) == (target_tokens * 3) \div 4

\* chunk_text, lines 157-163: the locals before the loop; i is the index of
\* the next word.
chunk_begin(text) ==
    [words |-> split_whitespace(text), i |-> 1, current_chunk |-> <<>>, chunks |-> <<>>]

\* chunk_text, lines 165-172: one iteration of the loop.
chunk_step(l, per_chunk) ==
    LET pushed_word == Append(l.current_chunk, l.words[l.i])
    IN  IF Len(pushed_word) >= per_chunk
        THEN [l EXCEPT !.i = @ + 1, !.current_chunk = <<>>,
                       !.chunks = Append(@, join(pushed_word))]
        ELSE [l EXCEPT !.i = @ + 1, !.current_chunk = pushed_word]

\* chunk_text, lines 165-172: the loop.
RECURSIVE chunk_loop(_, _)
chunk_loop(l, per_chunk) ==
    IF l.i > Len(l.words) THEN l ELSE chunk_loop(chunk_step(l, per_chunk), per_chunk)

\* chunk_text, lines 174-184: the remaining words, and at least one chunk.
chunk_end(text, l) ==
    LET with_rest == IF l.current_chunk # <<>>
                     THEN Append(l.chunks, join(l.current_chunk))
                     ELSE l.chunks
    IN  IF with_rest = <<>> THEN <<text>> ELSE with_rest

\* RakeExporter::chunk_text.
chunk_text(text, target_tokens) ==
    chunk_end(text, chunk_loop(chunk_begin(text), words_per_chunk(target_tokens)))

\* convert_file_to_chunks, lines 125-150: the chunks in order, each with its
\* index as position.
number_chunks(file_id, chunks) ==
    [i \in 1..Len(chunks) |->
        [document_id |-> file_id, content |-> chunks[i], position |-> i - 1]]

\* convert_file_to_chunks, lines 113-150, on a text: chunk it for 500 tokens
\* and number the chunks.
rake_chunks(file_id, text) == number_chunks(file_id, chunk_text(text, 500))

\* The text of w words: word i is the single character ToString(i); pad
\* whitespace characters come first and 1 + pad of them separate two words.
TextOf(w, pad) ==
    [p \in 1..(pad + (IF w = 0 THEN 0 ELSE w + (w - 1) * (1 + pad))) |->
        IF p > pad /\ (p - pad - 1) % (2 + pad) = 0
        THEN ToString((p - pad - 1) \div (2 + pad) + 1)
        ELSE Space]

\* No chunk_text call yet.
NoLocals == [words |-> <<>>, i |-> 1, current_chunk |-> <<>>, chunks |-> <<>>]

ChunkIdle ==
    chunking = [text |-> <<>>, pc |-> "idle", l |-> NoLocals, out |-> <<>>]

ChunkInit ==
    \E w \in 0..MaxTextWords, pad \in 0..1 :
        chunking = [text |-> TextOf(w, pad), pc |-> "call", l |-> NoLocals, out |-> <<>>]

\* convert_file_to_chunks, line 113, into chunk_text, lines 157-163.
ChunkTextBegin ==
    /\ chunking.pc = "call"
    /\ chunking' = [chunking EXCEPT !.pc = "loop", !.l = chunk_begin(chunking.text)]
    /\ UNCHANGED <<package, pathVars>>

\* chunk_text, lines 165-172: the next word.
ChunkTextWord ==
    /\ chunking.pc = "loop"
    /\ chunking.l.i <= Len(chunking.l.words)
    /\ chunking' = [chunking EXCEPT !.l = chunk_step(@, words_per_chunk(500))]
    /\ UNCHANGED <<package, pathVars>>

\* chunk_text, lines 174-184, and the numbering of convert_file_to_chunks.
ChunkTextReturn ==
    /\ chunking.pc = "loop"
    /\ chunking.l.i > Len(chunking.l.words)
    /\ chunking' = [chunking EXCEPT
                       !.pc = "done",
                       !.out = number_chunks(1, chunk_end(chunking.text, chunking.l))]
    /\ UNCHANGED <<package, pathVars>>

\* The characters of a stored text_content: its words, one space apart.
text_content(text) == join([i \in 1..Len(text.words) |-> <<text.words[i]>>])

convert_file_to_chunks_without_skip(db, file) ==
    LET chunks == rake_chunks(file.id,
                              IF file.id \in DOMAIN db.file_content
                              THEN text_content(db.file_content[file.id])
                              ELSE <<>>)
    IN  {chunks[i] : i \in DOMAIN chunks}

\* RakeExporter::convert_file_to_chunks, lines 97-152: no chunk for a file
\* without a file_content row or with NULL text_content, else the numbered
\* chunks of its text.
convert_file_to_chunks(db, file) ==
    IF file.id \notin DOMAIN db.file_content \/ db.file_content[file.id].null
    THEN {}
    ELSE LET chunks == rake_chunks(file.id, text_content(db.file_content[file.id]))
         IN  {chunks[i] : i \in DOMAIN chunks}

\* RakeExporter::export, lines 20-57, with embeddings disabled.  The chunks
\* are kept as a set: their order across files is that of list_files
\* (modified_at), within a file that of position.
export(db, include_embeddings) ==
    LET exported == get_files_for_export(db)
        chunks == UNION {convert_file_to_chunks(db, file) : file \in exported}
    IN  [metadata |-> [total_files |-> Cardinality(exported),
                       total_chunks |-> Cardinality(chunks),
                       has_embeddings |-> include_embeddings],
         chunks |-> chunks]

PackageIdle ==
    package = [exports |-> 0, result |-> export([files |-> {}, file_content |-> EmptyFn], FALSE)]

\* One RakeExporter::export call with config.include_embeddings = false on
\* the store as it is.
Export ==
    /\ package.exports < MaxExports
    /\ package' = [exports |-> package.exports + 1, result |-> export(DbState, FALSE)]
    /\ UNCHANGED pathVars

\* ------------------------------------------------------------- output paths

\* A path is its components after PathBuf::from(path).components() and
\* whether it is absolute; blank stands for an empty or all-whitespace
\* string.  A leading "./" and repeated separators do not show up as
\* components.
Blank == [blank |-> TRUE, absolute |-> FALSE, comps |-> <<>>]

Rel(comps) == [blank |-> FALSE, absolute |-> FALSE, comps |-> comps]

Abs(comps) == [blank |-> FALSE, absolute |-> TRUE, comps |-> comps]

\* dirs::home_dir() and std::env::temp_dir().
home_dir == <<"home", "u">>

temp_dir == <<"tmp">>

\* The working directories the application is started in: a project under
\* the home directory, and its installation directory.
WorkingDirs == {<<"home", "u", "proj">>, <<"opt", "cortex">>}

\* The directories that exist before any export, and one symbolic link:
\* /home/u/proj/link -> /etc.
InitialDirs ==
    {<<>>, <<"home">>, <<"home", "u">>, <<"home", "u", "proj">>, <<"tmp">>,
     <<"opt">>, <<"opt", "cortex">>, <<"etc">>}

LinkPath == <<"home", "u", "proj", "link">>

LinkTarget == <<"etc">>

\* The output_path arguments tried.
OutputPaths ==
    {Blank,
     Rel(<<"out">>), Rel(<<"exports", "out">>), Rel(<<"link", "out">>),
     Rel(<<"..", "out">>), Rel(<<"exports", "..", "..", "out">>),
     Abs(<<"etc", "passwd">>), Abs(<<"home", "u", "out">>), Abs(<<"tmp", "out">>),
     Abs(<<"opt", "cortex", "out">>), Abs(<<"home", "u", "proj", "link", "out">>),
     Abs(<<"home", "u", "..", "..", "etc", "out">>)}

\* Path::starts_with: a prefix by whole components.
starts_with(path, base) ==
    Len(base) <= Len(path) /\ SubSeq(path, 1, Len(base)) = base

\* Path::parent of a non-root absolute path.
parent(path) == SubSeq(path, 1, Len(path) - 1)

\* Path::file_name of a non-root absolute path.
file_name(path) == path[Len(path)]

\* Path::canonicalize: the path with the symbolic link resolved.
canonicalize(path) ==
    IF starts_with(path, LinkPath)
    THEN LinkTarget \o SubSeq(path, Len(LinkPath) + 1, Len(path))
    ELSE path

\* Path::exists, on the file system fs = [dirs, written].
exists(fs, path) == canonicalize(path) \in fs.dirs \cup fs.written

Accepted(out) == [ok |-> TRUE, err |-> "none", out |-> out]

Rejected(e) == [ok |-> FALSE, err |-> e, out |-> <<>>]

validate_absolute_path_anywhere(path) == Accepted(path)

\* PathValidator::validate_absolute_path, lines 104-128 (the home directory
\* can be determined).
validate_absolute_path(path) ==
    IF starts_with(path, home_dir) \/ starts_with(path, temp_dir)
    THEN Accepted(path)
    ELSE Rejected("InvalidPath")

\* PathValidator::validate_export_path, lines 32-101, with base_dir the
\* current directory.
validate_export_path(path, base_dir, fs) ==
    IF path.blank THEN Rejected("InvalidPath")
    ELSE IF \E i \in DOMAIN path.comps : path.comps[i] = ".." THEN Rejected("InvalidPath")
    ELSE IF path.absolute /\ ~validate_absolute_path(path.comps).ok
    THEN validate_absolute_path(path.comps)
    ELSE LET full_path == IF path.absolute THEN path.comps ELSE base_dir \o path.comps
         IN  IF full_path # <<>> /\ exists(fs, parent(full_path))
             THEN LET canonical == canonicalize(parent(full_path))
                  IN  IF ~path.absolute /\ ~starts_with(canonical, base_dir)
                      THEN Rejected("InvalidPath")
                      ELSE Accepted(Append(canonical, file_name(full_path)))
             ELSE Accepted(full_path)

\* The string of a validated PathBuf, as a path argument.
to_string_lossy(out) == Abs(out)

FileSystem == [dirs |-> dirs, written |-> written]

\* fs::create_dir_all(path): the directory and its missing ancestors.
create_dir_all(path) ==
    {canonicalize(SubSeq(path, 1, n)) : n \in 0..Len(path)}

\* The files create_bundle writes under output_dir, and the directories it
\* makes for them.
BundleFiles(output_dir, include_prompts) ==
    {Append(output_dir, "CONTEXT.md"), Append(output_dir, "STARTER_PROMPT.md"),
     Append(output_dir, "README.md"), output_dir \o <<".claude", "settings.json">>}
    \cup (IF include_prompts THEN {output_dir \o <<"prompts", "ADD_FEATURE.md">>} ELSE {})

BundleDirs(output_dir, include_prompts) ==
    {Append(output_dir, ".claude")}
    \cup (IF include_prompts THEN {Append(output_dir, "prompts")} ELSE {})

NoCall ==
    [n |-> 0, op |-> "none", path |-> Blank, tenant_blank |-> FALSE,
     mode_known |-> TRUE, poisoned |-> FALSE, ok |-> TRUE, err |-> "none", out |-> <<>>]

PathIdle ==
    /\ cwd = <<"home", "u", "proj">>
    /\ dirs = InitialDirs
    /\ written = {}
    /\ export_call = NoCall
    /\ validation = [pc |-> "none", path |-> Blank, first |-> Rejected("none"),
                     second |-> Rejected("none")]

PathInit ==
    /\ cwd \in WorkingDirs
    /\ dirs = InitialDirs
    /\ written = {}
    /\ export_call = NoCall
    /\ validation = [pc |-> "none", path |-> Blank, first |-> Rejected("none"),
                     second |-> Rejected("none")]

Called(op, path, tenant_blank, mode_known, res) ==
    export_call' = [n |-> export_call.n + 1, op |-> op, path |-> path,
                    tenant_blank |-> tenant_blank, mode_known |-> mode_known,
                    poisoned |-> db_poisoned,
                    ok |-> res.ok, err |-> res.err, out |-> res.out]

\* commands/export.rs export_vscode_context -> BundleBuilder::create_bundle,
\* lines 21-83.  db_arc.lock().unwrap() panics on a poisoned mutex and the
\* join error becomes Internal.  After the validation the output directory
\* is made; io_ok is whether the context and prompt builders and every
\* fs::write then succeed.
ExportVscodeContext ==
    \E path \in OutputPaths, include_prompts \in BOOLEAN, io_ok \in BOOLEAN :
        /\ export_call.n < MaxPathCalls
        /\ LET v == validate_export_path(path, cwd, FileSystem)
               output_dir == canonicalize(v.out)
           IN  IF db_poisoned
               THEN /\ Called("export_vscode_context", path, FALSE, TRUE, Rejected("Internal"))
                    /\ UNCHANGED <<dirs, written>>
               ELSE IF ~v.ok
               THEN /\ Called("export_vscode_context", path, FALSE, TRUE, v)
                    /\ UNCHANGED <<dirs, written>>
               ELSE IF output_dir \in written
               THEN /\ Called("export_vscode_context", path, FALSE, TRUE, Rejected("Internal"))
                    /\ UNCHANGED <<dirs, written>>
               ELSE IF ~io_ok
               THEN /\ Called("export_vscode_context", path, FALSE, TRUE, Rejected("Internal"))
                    /\ dirs' = dirs \cup create_dir_all(output_dir)
                    /\ UNCHANGED written
               ELSE /\ Called("export_vscode_context", path, FALSE, TRUE, v)
                    /\ dirs' = dirs \cup create_dir_all(output_dir)
                                     \cup BundleDirs(output_dir, include_prompts)
                    /\ written' = written \cup BundleFiles(output_dir, include_prompts)
        /\ UNCHANGED <<cwd, validation, chunking, package>>

\* commands/export.rs export_rake_package, lines 52-107, ->
\* RakeExporter::export_to_file, lines 60-77: tenant id and mode are checked
\* first, then the mutex is locked, the path validated, the package built
\* and written to the validated path.
ExportRakePackage ==
    \E path \in OutputPaths, tenant_blank \in BOOLEAN, mode_known \in BOOLEAN :
        /\ export_call.n < MaxPathCalls
        /\ LET v == validate_export_path(path, cwd, FileSystem)
               file == canonicalize(v.out)
           IN  IF tenant_blank \/ ~mode_known
               THEN /\ Called("export_rake_package", path, tenant_blank, mode_known,
                              Rejected("InvalidQuery"))
                    /\ UNCHANGED <<dirs, written>>
               ELSE IF db_poisoned
               THEN /\ Called("export_rake_package", path, tenant_blank, mode_known,
                              Rejected("Internal"))
                    /\ UNCHANGED <<dirs, written>>
               ELSE IF ~v.ok
               THEN /\ Called("export_rake_package", path, tenant_blank, mode_known, v)
                    /\ UNCHANGED <<dirs, written>>
               ELSE IF parent(file) \notin dirs \/ file \in dirs
               THEN /\ Called("export_rake_package", path, tenant_blank, mode_known,
                              Rejected("Internal"))
                    /\ UNCHANGED <<dirs, written>>
               ELSE /\ Called("export_rake_package", path, tenant_blank, mode_known, v)
                    /\ written' = written \cup {file}
                    /\ UNCHANGED dirs
        /\ UNCHANGED <<cwd, validation, chunking, package>>

\* One PathValidator::validate_export_path call.
ValidateExportPath ==
    \E path \in OutputPaths :
        /\ validation.pc = "none"
        /\ validation' = [pc |-> "once", path |-> path,
                          first |-> validate_export_path(path, cwd, FileSystem),
                          second |-> Rejected("none")]
        /\ UNCHANGED <<cwd, dirs, written, export_call, chunking, package>>

\* The validator called again: on the path it returned, or on the rejected
\* input.
ValidateAgain ==
    /\ validation.pc = "once"
    /\ validation' =
          [validation EXCEPT
              !.pc = "twice",
              !.second = validate_export_path(
                            IF validation.first.ok
                            THEN to_string_lossy(validation.first.out)
                            ELSE validation.path,
                            cwd, FileSystem)]
    /\ UNCHANGED <<cwd, dirs, written, export_call, chunking, package>>

ExportIdle == ChunkIdle /\ PackageIdle /\ PathIdle

\* scanner.scan_directory on a directory "inbox" of n small files, as
\* scan_root computes it: n jobs of equal priority and modification time, in
\* traversal order.
InboxJobs(n) ==
    LET js == scan_directory([i \in 1..n |->
                                 [supported |-> TRUE, size |-> 500000, modified |-> 1]])
    IN  [i \in 1..n |-> [js[i] EXCEPT !.path = "inbox/" \o ToString(i)]]

\* One accepted start_indexing(["inbox"]) whose task has scanned its only
\* root and found n files; no run came before it.
LongRunInit ==
    \E n \in 1..MaxJobs :
        /\ indexing_active = TRUE
        /\ indexing_progress = NoneProgress
        /\ indexing_errors = <<>>
        /\ stop_indexing = FALSE
        /\ db_poisoned = FALSE
        /\ callers = [c \in Callers |-> IdleCaller(IF c = 1 THEN "Ok" ELSE "none")]
        /\ starts = 1
        /\ stop_call = [pc |-> "idle", result |-> "none"]
        /\ stops = 0
        /\ tasks = <<[NewTask(<<"inbox">>) EXCEPT !.root = 2, !.all_jobs = InboxJobs(n)]>>
        /\ events = <<>>
        /\ stop_acked = {}

\* The lists of roots a start_indexing call may name.
RootLists ==
    {paths \in SeqsUpTo({"docs", "notes", "readme.md", "missing"}, MaxRoots) :
        Len(paths) >= 1}

\* One accepted start_indexing(paths) whose task is about to look at its
\* first root; no run came before it.
RootsRunInit ==
    \E paths \in RootLists :
        /\ indexing_active = TRUE
        /\ indexing_progress = NoneProgress
        /\ indexing_errors = <<>>
        /\ stop_indexing = FALSE
        /\ db_poisoned = FALSE
        /\ callers = [c \in Callers |-> IdleCaller(IF c = 1 THEN "Ok" ELSE "none")]
        /\ starts = 1
        /\ stop_call = [pc |-> "idle", result |-> "none"]
        /\ stops = 0
        /\ tasks = <<NewTask(paths)>>
        /\ events = <<>>
        /\ stop_acked = {}

\* ------------------------------------------------------------- file detail

\* The bytes of a UTF-8 text: "a" is a one-byte character, "lead" and "cont"
\* are the first and the second byte of a two-byte character.
Utf8(len, wide_at) ==
    [i \in 1..len |-> IF wide_at > 0 /\ i = wide_at THEN "lead"
                      ELSE IF wide_at > 0 /\ i = wide_at + 1 THEN "cont"
                      ELSE "a"]

\* str::is_char_boundary: byte offset idx starts a character or ends the text.
is_char_boundary(text, idx) ==
    idx = 0 \/ idx = Len(text) \/ (idx < Len(text) /\ text[idx + 1] # "cont")

\* Option<String> and Option<bool>.
NoneValue == [some |-> FALSE]

SomeValue(v) == [some |-> TRUE, value |-> v]

unwrap_or(option, default) == IF option.some THEN option.value ELSE default

Dots == <<".", ".", ".">>

\* The length of the prefix of the text the preview takes.
PreviewLen == 500

min(a, b) == IF a < b THEN a ELSE b

\* commands/search.rs get_file_detail, lines 114-131: content is what
\* get_file_content returned (None, or the row with its text_content).
get_file_detail(content, include_full_content) ==
    IF ~content.some
    THEN [outcome |-> "Ok", content_preview |-> NoneValue, full_content |-> NoneValue]
    ELSE LET text == content.value
             preview_len == IF text.some
                            THEN min(PreviewLen, Len(text.value))
                            ELSE 0
         IN  IF text.some /\ ~is_char_boundary(text.value, preview_len)
             THEN [outcome |-> "panic", content_preview |-> NoneValue,
                   full_content |-> NoneValue]
             ELSE [outcome |-> "Ok",
                   content_preview |->
                       IF text.some
                       THEN SomeValue(SubSeq(text.value, 1, preview_len) \o Dots)
                       ELSE NoneValue,
                   full_content |->
                       IF unwrap_or(include_full_content, FALSE)
                       THEN text
                       ELSE NoneValue]

\* The texts of the file_content rows: every length up to MaxTextBytes, of
\* one-byte characters only or with one two-byte character at the start or
\* across the preview length.
DetailTexts ==
    {Utf8(len, wide_at) : len \in 0..MaxTextBytes,
                          wide_at \in {0}} \cup
    {Utf8(len, wide_at) : len \in 2..MaxTextBytes,
                          wide_at \in {1}} \cup
    {Utf8(len, wide_at) : len \in (PreviewLen + 1)..MaxTextBytes,
                          wide_at \in {PreviewLen}}

DetailContents ==
    {NoneValue, SomeValue(NoneValue)} \cup {SomeValue(SomeValue(t)) : t \in DetailTexts}

NoDetail == [pc |-> "idle"]

DetailIdle == detail = NoDetail

DetailInit ==
    detail \in {[pc |-> "called", content |-> c, include_full_content |-> i]
                    : c \in DetailContents,
                      i \in {NoneValue, SomeValue(FALSE), SomeValue(TRUE)}}

\* ------------------------------------------------------------------ watcher

\* bounded(1000), watcher.rs line 18.
Capacity == 1000

\* The events notify reports: a kind and the paths it concerns, each with
\* what is at that path when the callback runs.
WatchPath(name, at) == [name |-> name, at |-> at]

WatchEvents ==
    {[kind |-> "Create", paths |-> <<WatchPath("a.txt", "file")>>],
     [kind |-> "Modify", paths |-> <<WatchPath("b.txt", "file")>>],
     [kind |-> "Create", paths |-> <<WatchPath("sub", "dir")>>],
     [kind |-> "Modify", paths |-> <<WatchPath("a.txt", "gone")>>],
     [kind |-> "Remove", paths |-> <<WatchPath("a.txt", "gone")>>],
     [kind |-> "ModifyName", paths |-> <<WatchPath("a.txt", "gone"),
                                         WatchPath("c.txt", "file")>>]}

\* FileWatcher::create_index_job, lines 91-104: None when the metadata
\* cannot be read or is not that of a file.  event tags the job with the
\* number of the event it was made for.
create_index_job(path, event) ==
    IF path.at # "file" THEN NoneValue
    ELSE SomeValue([path |-> path.name, event |-> event])

\* FileWatcher::process_event, lines 68-88.  Every Modify kind, the name
\* changes included, is taken by the first arm.
process_event(e, event) ==
    IF e.kind \in {"Create", "Modify", "ModifyName"}
    THEN IF Len(e.paths) > 0 /\ e.paths[1].at = "file"
         THEN create_index_job(e.paths[1], event)
         ELSE NoneValue
    ELSE NoneValue

\* A send that loses the job when the channel is full.
send_or_drop(ch, job) ==
    IF Len(ch) < Capacity THEN [sent |-> TRUE, channel |-> Append(ch, job)]
    ELSE [sent |-> TRUE, channel |-> ch]

\* Sender::send on the bounded channel: the job is queued when there is
\* room; otherwise the call waits (sent is FALSE).
send(ch, job) ==
    IF Len(ch) < Capacity THEN [sent |-> TRUE, channel |-> Append(ch, job)]
    ELSE [sent |-> FALSE, channel |-> ch]

\* notify's thread between two events: queued counts the jobs that were in
\* the channel at the start, handled the events handled so far (those of the
\* queued jobs included), waited the sends that had to wait.
IdleCallback(queued, handled, waited) ==
    [pc |-> "idle", queued |-> queued, events |-> handled, waited |-> waited]

WatchIdle ==
    /\ channel = <<>>
    /\ callback = IdleCallback(0, 0, 0)
    /\ consumer = [alive |-> FALSE, in_flight |-> FALSE, recvs |-> 0, last |-> NoneValue]
    /\ undelivered = <<>>

\* The jobs already queued when the behaviour starts: none, or two less
\* than the channel holds.
Backlogs == {0, Capacity - 2}

\* A FileWatcher whose callback has queued n jobs that nobody has received.
WatchInit ==
    \E n \in Backlogs :
        /\ channel = [i \in 1..n |-> [path |-> "a.txt", event |-> i]]
        /\ callback = IdleCallback(n, n, 0)
        /\ consumer = [alive |-> TRUE, in_flight |-> FALSE, recvs |-> 0,
                       last |-> NoneValue]
        /\ undelivered = channel

\* Whether the event is a creation or modification of a regular file.
OnRegularFile(e) ==
    /\ e.kind \in {"Create", "Modify"}
    /\ e.paths[1].at = "file"

\* notify calls the closure of create_watcher, lines 36-47, with Ok(event):
\* the job of the event, if it has one, is sent; a send on a full channel
\* waits, a send after the receiver was dropped fails and is logged (the
\* callback that was under way when the FileWatcher was dropped).
WatchCallback ==
    /\ callback.pc = "idle"
    /\ consumer.alive \/ consumer.in_flight
    /\ callback.events < callback.queued + MaxWatchEvents
    /\ \E e \in WatchEvents :
          LET event == callback.events + 1
              job == process_event(e, event)
              res == send(channel, job.value)
          IN  /\ undelivered' = IF consumer.alive /\ OnRegularFile(e)
                                THEN Append(undelivered,
                                            [path |-> e.paths[1].name, event |-> event])
                                ELSE undelivered
              /\ IF ~job.some \/ ~consumer.alive
                 THEN /\ callback' = IdleCallback(callback.queued, event, callback.waited)
                      /\ UNCHANGED channel
                 ELSE IF res.sent
                 THEN /\ callback' = IdleCallback(callback.queued, event, callback.waited)
                      /\ channel' = res.channel
                 ELSE /\ callback' = [pc |-> "blocked", queued |-> callback.queued,
                                      events |-> event,
                                      waited |-> callback.waited + 1,
                                      job |-> job.value]
                      /\ UNCHANGED channel
    /\ consumer' = [consumer EXCEPT !.in_flight = FALSE]

\* The send that waited goes on when the consumer has made room, or fails
\* when the receiver was dropped.
WatchSendResumes ==
    /\ callback.pc = "blocked"
    /\ LET res == send(channel, callback.job)
       IN  /\ ~consumer.alive \/ res.sent
           /\ channel' = IF consumer.alive THEN res.channel ELSE channel
    /\ callback' = IdleCallback(callback.queued, callback.events, callback.waited)
    /\ UNCHANGED <<consumer, undelivered>>

\* FileWatcher::try_recv and recv_timeout, lines 112-119: the oldest job,
\* or None when the channel is (or stays) empty.
WatchRecv ==
    /\ consumer.alive
    /\ consumer.recvs < MaxRecvs
    /\ IF channel = <<>>
       THEN /\ consumer' = [consumer EXCEPT !.recvs = @ + 1, !.last = NoneValue]
            /\ UNCHANGED <<channel, undelivered>>
       ELSE /\ consumer' = [consumer EXCEPT !.recvs = @ + 1,
                                            !.last = SomeValue(Head(channel))]
            /\ channel' = Tail(channel)
            /\ undelivered' = Tail(undelivered)
    /\ UNCHANGED callback

\* The FileWatcher is dropped: notify's watcher stops (a callback may be
\* under way) and the receiver goes, with the jobs in the channel.
WatchDrop ==
    /\ consumer.alive
    /\ consumer' = [alive |-> FALSE, in_flight |-> callback.pc = "idle", recvs |-> 0,
                    last |-> NoneValue]
    /\ channel' = <<>>
    /\ undelivered' = <<>>
    /\ UNCHANGED callback

\* --------------------------------------------------------------- embeddings

\* batch_size.unwrap_or(100), ai_commands.rs line 116.
DefaultBatchSize == 100

\* Store.get_files_without_embeddings(limit): the results it may return, any
\* limit of the non-deleted files that have no Embedding (all of them when
\* they are fewer).
get_files_without_embeddings(db, emb, limit) ==
    LET without == {f.id : f \in {g \in db.files : ~g.is_deleted /\ g.id \notin emb}}
    IN  IF Cardinality(without) <= limit THEN {without}
        ELSE {batch \in SUBSET without : Cardinality(batch) = limit}

\* Store.upsert_embedding(file_id, vector, model_version).
upsert_embedding(emb, file_id) == emb \cup {file_id}

\* generate_all_embeddings, lines 143-160, on one file of a batch: whether
\* an embedding is generated and stored for it.
EmbedsFile(db, failing, file_id) ==
    /\ file_id \in DOMAIN db.file_content
    /\ ~db.file_content[file_id].null
    /\ file_id \notin failing

\* The for loop of lines 141-160 over a batch: the embeddings afterwards.
RECURSIVE embed_batch(_, _, _, _)
embed_batch(db, failing, emb, batch) ==
    IF batch = {} THEN emb
    ELSE LET file_id == CHOOSE x \in batch : TRUE
         IN  embed_batch(db, failing,
                         IF EmbedsFile(db, failing, file_id)
                         THEN upsert_embedding(emb, file_id)
                         ELSE emb,
                         batch \ {file_id})

\* What a file is when generate_all_embeddings is called:
\*   "text"      not deleted, text_content not NULL, no Embedding;
\*   "null"      not deleted, text_content NULL;
\*   "bare"      not deleted, no file_content row;
\*   "deleted"   soft-deleted, with text;
\*   "embedded"  not deleted, with text and an Embedding;
\*   "failing"   not deleted, with a text the embedding service fails on.
EmbedKinds == {"text", "null", "bare", "deleted", "embedded", "failing"}

EmbedPath(i) == "inbox/" \o ToString(i)

\* The store with one file of each kind of the list, ids in list order.
EmbedStore(kinds) ==
    LET ids == 1..Len(kinds)
        rows == {i \in ids : kinds[i] # "bare"}
        text(i) == IF kinds[i] = "null" THEN NullText ELSE SomeText(<<"rust">>)
    IN  [files |-> {[id |-> i, path |-> EmbedPath(i), size |-> 1,
                     is_deleted |-> kinds[i] = "deleted"] : i \in ids},
         file_content |-> [i \in rows |-> text(i)],
         files_fts |-> [i \in rows |-> [filename |-> EmbedPath(i), content |-> text(i)]],
         seq |-> Len(kinds)]

BatchSizes == {NoneValue} \cup {SomeValue(n) : n \in 1..MaxBatchSize}

EmbedIdle ==
    /\ embeddings = {}
    /\ embed_call = [pc |-> "idle"]

\* The store and the call at the head of the batch loop (line 134): the
\* model is loaded, the connection is locked, total_generated is 0.
EmbedInit ==
    \E kinds \in SeqsUpTo(EmbedKinds, MaxEmbedFiles), batch_size \in BatchSizes :
        LET db == EmbedStore(kinds)
        IN  /\ files = db.files
            /\ file_content = db.file_content
            /\ files_fts = db.files_fts
            /\ seq = db.seq
            /\ foreign_keys = FALSE
            /\ last_result = [op |-> "none", ok |-> TRUE, err |-> "none", id |-> 0,
                              path |-> "", text |-> NullText]
            /\ soft_deleted = {i \in 1..Len(kinds) : kinds[i] = "deleted"}
            /\ embeddings = {i \in 1..Len(kinds) : kinds[i] = "embedded"}
            /\ embed_call = [pc |-> "loop",
                             batch_size |-> unwrap_or(batch_size, DefaultBatchSize),
                             failing |-> {i \in 1..Len(kinds) : kinds[i] = "failing"},
                             had |-> {i \in 1..Len(kinds) : kinds[i] = "embedded"},
                             total_generated |-> 0,
                             batches |-> 0]

\* generate_all_embeddings, lines 134-167: one iteration of the loop.  The
\* next batch is fetched; an empty one ends the loop; otherwise its files
\* are embedded, and the loop ends when total_generated < batch_size.
GenerateAllEmbeddingsBatch ==
    /\ embed_call.pc = "loop"
    /\ embed_call.batches < MaxBatches
    /\ \E batch \in get_files_without_embeddings(DbState, embeddings,
                                                 embed_call.batch_size) :
          LET after == embed_batch(DbState, embed_call.failing, embeddings, batch)
              total_generated == embed_call.total_generated
                                    + Cardinality(after \ embeddings)
          IN  /\ embeddings' = after
              /\ embed_call' =
                    [embed_call EXCEPT
                        !.total_generated = total_generated,
                        !.batches = @ + 1,
                        !.pc = IF batch = {} \/ total_generated < embed_call.batch_size
                               THEN "returned"
                               ELSE "loop"]

\* ----------------------------------------------------------- export preview

\* db/operations.rs upsert_file_content, line 151: the word_count column,
\* text_content.map(|c| c.split_whitespace().count()).
word_count(text) ==
    IF text.null THEN NoneValue
    ELSE SomeValue(Len(split_whitespace(text_content(text))))

\* ((wc as f32 * 0.75) / 375.0).ceil() as usize, for the word counts a
\* stored text can have (the products and quotients are far from the
\* precision of f32): the least n with n * 375 * 4 >= wc * 3.
estimated_chunks(wc) == (wc * 3 + 375 * 4 - 1) \div (375 * 4)

\* The chunk estimate of both previews (commands/export.rs 123-133,
\* rake_exporter.rs 209-218): the sum, over the listed files that have a
\* file_content row with a word_count, of the estimate for that count.
estimate_total_chunks(db, listed) ==
    LET counted == {f.id : f \in {g \in listed :
                                    /\ g.id \in DOMAIN db.file_content
                                    /\ word_count(db.file_content[g.id]).some}}
    IN  SumOver(counted,
                [id \in counted |->
                    estimated_chunks(word_count(db.file_content[id]).value)])

\* commands/export.rs get_export_preview, lines 110-156.
get_export_preview(db) ==
    [file_count |-> Cardinality(list_files(db)),
     chunk_count |-> estimate_total_chunks(db, list_files(db))]

\* RakeExporter::preview_sync, lines 204-234 (get_rake_export_preview).
preview_sync(db) ==
    [file_count |-> Cardinality(get_files_for_export(db)),
     chunk_count |-> estimate_total_chunks(db, get_files_for_export(db))]

PreviewIdle == preview = [command |-> "none", file_count |-> 0, chunk_count |-> 0]

GetExportPreview ==
    preview' = [command |-> "get_export_preview",
                file_count |-> get_export_preview(DbState).file_count,
                chunk_count |-> get_export_preview(DbState).chunk_count]

GetRakeExportPreview ==
    preview' = [command |-> "get_rake_export_preview",
                file_count |-> preview_sync(DbState).file_count,
                chunk_count |-> preview_sync(DbState).chunk_count]

CmdIdle == DetailIdle /\ WatchIdle /\ EmbedIdle /\ PreviewIdle

\* One get_file_detail call runs to its return (or to its panic).
FileDetailReturn ==
    /\ detail.pc = "called"
    /\ detail' = [pc |-> "returned", content |-> detail.content,
                  include_full_content |-> detail.include_full_content,
                  result |-> get_file_detail(detail.content,
                                             detail.include_full_content)]

\* ------------------------------------------------------------ specifications

StoreNext ==
    \/ InsertFile /\ UNCHANGED <<scanVars, queueVars, pipeVars, exportVars, cmdVars>>
    \/ UpsertFileContent /\ UNCHANGED <<scanVars, queueVars, pipeVars, exportVars, cmdVars>>
    \/ MarkFileDeleted /\ UNCHANGED <<scanVars, queueVars, pipeVars, exportVars, cmdVars>>
    \/ DeleteFile /\ UNCHANGED <<scanVars, queueVars, pipeVars, exportVars, cmdVars>>
    \/ UpdateFile /\ UNCHANGED <<scanVars, queueVars, pipeVars, exportVars, cmdVars>>

InitStore == StoreInit /\ ScanIdle /\ QueueInit /\ PipelineInit /\ ExportIdle /\ CmdIdle

SpecStore == InitStore /\ [][StoreNext]_vars

\* The store is idle in the scanner's and the queue's specifications.
StoreIdle == StoreInit /\ foreign_keys = FALSE

ScanNext ==
    \/ ScanDirectory /\ UNCHANGED <<storeVars, queueVars, pipeVars, exportVars, cmdVars>>
    \/ ScanDirectoryFails /\ UNCHANGED <<storeVars, queueVars, pipeVars, exportVars, cmdVars>>

InitScan == StoreIdle /\ ScanInit /\ QueueInit /\ PipelineInit /\ ExportIdle /\ CmdIdle

SpecScan == InitScan /\ [][ScanNext]_vars

QueueNext ==
    \/ QueuePush /\ UNCHANGED <<storeVars, scanVars, pipeVars, exportVars, cmdVars>>
    \/ QueueExtend /\ UNCHANGED <<storeVars, scanVars, pipeVars, exportVars, cmdVars>>
    \/ QueuePop /\ UNCHANGED <<storeVars, scanVars, pipeVars, exportVars, cmdVars>>

InitQueue == StoreIdle /\ ScanIdle /\ QueueInit /\ PipelineInit /\ ExportIdle /\ CmdIdle

SpecQueue == InitQueue /\ [][QueueNext]_vars

\* Nothing the pipeline asks of the store depends on PRAGMA foreign_keys.
Init == StoreIdle /\ ScanIdle /\ QueueInit /\ PipelineInit /\ ExportIdle /\ CmdIdle

Next ==
    \/ \E c \in Callers : StartIndexingCheck(c) /\ UNCHANGED <<scanVars, queueVars, exportVars, cmdVars>>
    \/ \E c \in Callers : ResetIndexingActive(c) /\ UNCHANGED <<scanVars, queueVars, exportVars, cmdVars>>
    \/ \E c \in Callers : ResetIndexingProgress(c) /\ UNCHANGED <<scanVars, queueVars, exportVars, cmdVars>>
    \/ \E c \in Callers : ResetIndexingErrors(c) /\ UNCHANGED <<scanVars, queueVars, exportVars, cmdVars>>
    \/ \E c \in Callers : ResetStopIndexing(c) /\ UNCHANGED <<scanVars, queueVars, exportVars, cmdVars>>
    \/ \E c \in Callers : SetActiveAndSpawn(c) /\ UNCHANGED <<scanVars, queueVars, exportVars, cmdVars>>
    \/ StopIndexingCheck /\ UNCHANGED <<scanVars, queueVars, exportVars, cmdVars>>
    \/ StopIndexingSet /\ UNCHANGED <<scanVars, queueVars, exportVars, cmdVars>>
    \/ \E t \in DOMAIN tasks : ScanRoot(t) /\ UNCHANGED <<scanVars, queueVars, exportVars, cmdVars>>
    \/ \E t \in DOMAIN tasks : ScanStopCheck(t) /\ UNCHANGED <<scanVars, queueVars, exportVars, cmdVars>>
    \/ \E t \in DOMAIN tasks : SetProgress(t) /\ UNCHANGED <<scanVars, queueVars, exportVars, cmdVars>>
    \/ \E t \in DOMAIN tasks : JobStopCheck(t) /\ UNCHANGED <<scanVars, queueVars, exportVars, cmdVars>>
    \/ \E t \in DOMAIN tasks : JobProgress(t) /\ UNCHANGED <<scanVars, queueVars, exportVars, cmdVars>>
    \/ \E t \in DOMAIN tasks : Extract(t) /\ UNCHANGED <<scanVars, queueVars, exportVars, cmdVars>>
    \/ \E t \in DOMAIN tasks, io_error \in BOOLEAN : Store(t, io_error) /\ UNCHANGED <<scanVars, queueVars, exportVars, cmdVars>>
    \/ \E t \in DOMAIN tasks : EmitComplete(t) /\ UNCHANGED <<scanVars, queueVars, exportVars, cmdVars>>
    \/ \E t \in DOMAIN tasks : ClearActive(t) /\ UNCHANGED <<scanVars, queueVars, exportVars, cmdVars>>
    \/ GetFileDetail /\ UNCHANGED <<scanVars, queueVars, exportVars, cmdVars>>

Spec == Init /\ [][Next]_vars

\* One run over up to MaxJobs files that nobody stops, on a disk that takes
\* every write.
ProgressNext ==
    \/ \E t \in DOMAIN tasks : SetProgress(t) /\ UNCHANGED <<scanVars, queueVars, exportVars, cmdVars>>
    \/ \E t \in DOMAIN tasks : JobStopCheck(t) /\ UNCHANGED <<scanVars, queueVars, exportVars, cmdVars>>
    \/ \E t \in DOMAIN tasks : JobProgress(t) /\ UNCHANGED <<scanVars, queueVars, exportVars, cmdVars>>
    \/ \E t \in DOMAIN tasks : Extract(t) /\ UNCHANGED <<scanVars, queueVars, exportVars, cmdVars>>
    \/ \E t \in DOMAIN tasks : Store(t, FALSE) /\ UNCHANGED <<scanVars, queueVars, exportVars, cmdVars>>
    \/ \E t \in DOMAIN tasks : EmitComplete(t) /\ UNCHANGED <<scanVars, queueVars, exportVars, cmdVars>>
    \/ \E t \in DOMAIN tasks : ClearActive(t) /\ UNCHANGED <<scanVars, queueVars, exportVars, cmdVars>>

InitProgress == StoreIdle /\ ScanIdle /\ QueueInit /\ LongRunInit /\ ExportIdle /\ CmdIdle

SpecProgress == InitProgress /\ [][ProgressNext]_vars

\* One run over any list of roots, which stop_indexing may stop.
RootsNext ==
    \/ StopIndexingCheck /\ UNCHANGED <<scanVars, queueVars, exportVars, cmdVars>>
    \/ StopIndexingSet /\ UNCHANGED <<scanVars, queueVars, exportVars, cmdVars>>
    \/ \E t \in DOMAIN tasks : ScanRoot(t) /\ UNCHANGED <<scanVars, queueVars, exportVars, cmdVars>>
    \/ \E t \in DOMAIN tasks : ScanStopCheck(t) /\ UNCHANGED <<scanVars, queueVars, exportVars, cmdVars>>
    \/ \E t \in DOMAIN tasks : SetProgress(t) /\ UNCHANGED <<scanVars, queueVars, exportVars, cmdVars>>
    \/ \E t \in DOMAIN tasks : JobStopCheck(t) /\ UNCHANGED <<scanVars, queueVars, exportVars, cmdVars>>
    \/ \E t \in DOMAIN tasks : JobProgress(t) /\ UNCHANGED <<scanVars, queueVars, exportVars, cmdVars>>
    \/ \E t \in DOMAIN tasks : Extract(t) /\ UNCHANGED <<scanVars, queueVars, exportVars, cmdVars>>
    \/ \E t \in DOMAIN tasks, io_error \in BOOLEAN : Store(t, io_error) /\ UNCHANGED <<scanVars, queueVars, exportVars, cmdVars>>
    \/ \E t \in DOMAIN tasks : EmitComplete(t) /\ UNCHANGED <<scanVars, queueVars, exportVars, cmdVars>>
    \/ \E t \in DOMAIN tasks : ClearActive(t) /\ UNCHANGED <<scanVars, queueVars, exportVars, cmdVars>>

InitRoots == StoreIdle /\ ScanIdle /\ QueueInit /\ RootsRunInit /\ ExportIdle /\ CmdIdle

SpecRoots == InitRoots /\ [][RootsNext]_vars

\* chunk_text on texts of up to MaxTextWords words.
ChunkNext ==
    \/ ChunkTextBegin /\ UNCHANGED <<storeVars, scanVars, queueVars, pipeVars, cmdVars>>
    \/ ChunkTextWord /\ UNCHANGED <<storeVars, scanVars, queueVars, pipeVars, cmdVars>>
    \/ ChunkTextReturn /\ UNCHANGED <<storeVars, scanVars, queueVars, pipeVars, cmdVars>>

InitChunk == StoreIdle /\ ScanIdle /\ QueueInit /\ PipelineInit /\ ChunkInit /\ PackageIdle /\ PathIdle /\ CmdIdle

SpecChunk == InitChunk /\ [][ChunkNext]_vars

\* RakeExporter::export between the operations of the store.
PackageNext ==
    \/ InsertFile /\ UNCHANGED <<scanVars, queueVars, pipeVars, exportVars, cmdVars>>
    \/ UpsertFileContent /\ UNCHANGED <<scanVars, queueVars, pipeVars, exportVars, cmdVars>>
    \/ MarkFileDeleted /\ UNCHANGED <<scanVars, queueVars, pipeVars, exportVars, cmdVars>>
    \/ DeleteFile /\ UNCHANGED <<scanVars, queueVars, pipeVars, exportVars, cmdVars>>
    \/ UpdateFile /\ UNCHANGED <<scanVars, queueVars, pipeVars, exportVars, cmdVars>>
    \/ Export /\ UNCHANGED <<storeVars, scanVars, queueVars, pipeVars, chunking, cmdVars>>

InitPackage == StoreInit /\ ScanIdle /\ QueueInit /\ PipelineInit /\ ExportIdle /\ CmdIdle

SpecPackage == InitPackage /\ [][PackageNext]_vars

\* The store after one file has been indexed.
StoreOneFile ==
    LET ins == insert_file([files |-> {}, file_content |-> EmptyFn,
                            files_fts |-> [x \in {} |-> [filename |-> "alpha.txt",
                                                          content |-> NullText]],
                            seq |-> 0], "alpha.txt", 1)
        res == upsert_file_content(ins.db, FALSE, ins.id, SomeText(<<"rust">>))
    IN  /\ files = res.db.files
        /\ file_content = res.db.file_content
        /\ files_fts = res.db.files_fts
        /\ seq = res.db.seq
        /\ foreign_keys = FALSE
        /\ last_result = [op |-> "upsert_file_content", ok |-> TRUE, err |-> "none",
                          id |-> ins.id, path |-> "alpha.txt", text |-> SomeText(<<"rust">>)]
        /\ soft_deleted = {}

\* The export commands and the validator on one indexed file, in either
\* working directory.
ExportPathNext ==
    \/ ExportVscodeContext /\ UNCHANGED <<storeVars, scanVars, queueVars, pipeVars, cmdVars>>
    \/ ExportRakePackage /\ UNCHANGED <<storeVars, scanVars, queueVars, pipeVars, cmdVars>>
    \/ ValidateExportPath /\ UNCHANGED <<storeVars, scanVars, queueVars, pipeVars, cmdVars>>
    \/ ValidateAgain /\ UNCHANGED <<storeVars, scanVars, queueVars, pipeVars, cmdVars>>
    \/ GetFileDetail /\ UNCHANGED <<scanVars, queueVars, exportVars, cmdVars>>

InitExportPath ==
    StoreOneFile /\ ScanIdle /\ QueueInit /\ PipelineInit /\ ChunkIdle /\ PackageIdle
        /\ PathInit /\ CmdIdle

SpecExportPath == InitExportPath /\ [][ExportPathNext]_vars

\* ------------------------------------------------------------------------
\* SpecDetail: one get_file_detail call on any file_content row.

DetailNext ==
    \/ FileDetailReturn /\ UNCHANGED <<storeVars, scanVars, queueVars, pipeVars, exportVars, watchVars, embedVars, preview>>

InitDetail ==
    StoreIdle /\ ScanIdle /\ QueueInit /\ PipelineInit /\ ExportIdle /\ DetailInit
        /\ WatchIdle /\ EmbedIdle /\ PreviewIdle

SpecDetail == InitDetail /\ [][DetailNext]_vars

\* ------------------------------------------------------------------------
\* SpecWatch: one FileWatcher, notify's thread and the consumer.

WatchNext ==
    \/ WatchCallback /\ UNCHANGED <<storeVars, scanVars, queueVars, pipeVars, exportVars, detail, embedVars, preview>>
    \/ WatchSendResumes /\ UNCHANGED <<storeVars, scanVars, queueVars, pipeVars, exportVars, detail, embedVars, preview>>
    \/ WatchRecv /\ UNCHANGED <<storeVars, scanVars, queueVars, pipeVars, exportVars, detail, embedVars, preview>>
    \/ WatchDrop /\ UNCHANGED <<storeVars, scanVars, queueVars, pipeVars, exportVars, detail, embedVars, preview>>

InitWatch ==
    StoreIdle /\ ScanIdle /\ QueueInit /\ PipelineInit /\ ExportIdle /\ DetailIdle
        /\ WatchInit /\ EmbedIdle /\ PreviewIdle

SpecWatch == InitWatch /\ [][WatchNext]_vars

\* ------------------------------------------------------------------------
\* SpecEmbed: one generate_all_embeddings call on any small store.

EmbedNext ==
    \/ GenerateAllEmbeddingsBatch /\ UNCHANGED <<storeVars, scanVars, queueVars, pipeVars, exportVars, detail, watchVars, preview>>

InitEmbed ==
    ScanIdle /\ QueueInit /\ PipelineInit /\ ExportIdle /\ DetailIdle /\ WatchIdle
        /\ EmbedInit /\ PreviewIdle

SpecEmbed == InitEmbed /\ [][EmbedNext]_vars

\* ------------------------------------------------------------------------
\* SpecPreview: the two previews and the package export on the store that
\* insert_file, upsert_file_content and mark_file_deleted build.

PreviewNext ==
    \/ InsertFile /\ UNCHANGED <<scanVars, queueVars, pipeVars, exportVars, cmdVars>>
    \/ UpsertFileContent /\ UNCHANGED <<scanVars, queueVars, pipeVars, exportVars, cmdVars>>
    \/ MarkFileDeleted /\ UNCHANGED <<scanVars, queueVars, pipeVars, exportVars, cmdVars>>
    \/ Export /\ UNCHANGED <<storeVars, scanVars, queueVars, pipeVars, chunking, cmdVars>>
    \/ GetExportPreview /\ UNCHANGED <<storeVars, scanVars, queueVars, pipeVars, exportVars, detail, watchVars, embedVars>>
    \/ GetRakeExportPreview /\ UNCHANGED <<storeVars, scanVars, queueVars, pipeVars, exportVars, detail, watchVars, embedVars>>

InitPreview == StoreInit /\ ScanIdle /\ QueueInit /\ PipelineInit /\ ExportIdle /\ CmdIdle

SpecPreview == InitPreview /\ [][PreviewNext]_vars

\* --------------------------------------- claims on the indexing commands

\* C1: at most one indexing run is active at any time: two pipeline tasks
\* never run simultaneously, and while a run is active no start_indexing
\* call is past its check (accepted, about to reset the progress, the errors
\* and the stop flag and to spawn a second task).
C1_AtMostOneRunActive ==
    /\ Cardinality(RunningTasks) <= 1
    /\ RunningTasks # {} => \A c \in Callers : callers[c].pc = "idle"

\* C2: indexing_active is cleared on every exit path of the background
\* task: once every spawned task has exited and no start_indexing call is
\* in progress, indexing_active is false.
C2_ActiveClearedOnEveryExit ==
    (/\ tasks # <<>>
     /\ \A t \in DOMAIN tasks : ~Running(t)
     /\ \A c \in Callers : callers[c].pc = "idle")
        => ~indexing_active

\* C3: every run emits exactly one indexing:complete event: never more than
\* one, none of the run's events after it, carrying the run's total_files
\* and indexed_files, and one has been emitted by the time the task exits.
C3_ExactlyOneCompleteLast ==
    \A t \in DOMAIN tasks :
        LET mine == {i \in DOMAIN events : events[i].run = t}
            complete == {i \in mine : events[i].name = "indexing:complete"}
        IN  /\ Cardinality(complete) <= 1
            /\ \A i \in complete :
                  /\ \A j \in mine : j <= i
                  /\ events[i].total_files = Len(tasks[t].all_jobs)
                  /\ events[i].indexed_files = tasks[t].indexed_count
            /\ ~Running(t) => Cardinality(complete) = 1

\* C4: once stop_indexing has returned Ok during a run, the run's next stop
\* check (after a scanned root, before a job) ends the pipeline, so no
\* further job is extracted or stored; and when the run ends, indexing_active
\* is false and indexed_files is below total_files if jobs were left.
C4_CooperativeCancellation ==
    [][\A t \in stop_acked :
          /\ (tasks[t].pc \in {"scan_stop", "job_stop"} /\ tasks'[t] # tasks[t])
                => tasks'[t].pc = "complete"
          /\ (tasks[t].pc # "done" /\ tasks'[t].pc = "done")
                => /\ ~indexing_active'
                   /\ Len(tasks[t].extracted) < Len(tasks[t].all_jobs)
                         => tasks[t].stats.indexed_files < tasks[t].stats.total_files]_vars

\* C5: within one run, a job of higher priority is extracted before every
\* job of lower priority, whatever roots the two were found under.
C5_HigherPriorityExtractedFirst ==
    \A t \in DOMAIN tasks :
        \A i, j \in 1..Len(tasks[t].extracted) :
            i < j => tasks[t].extracted[i].priority >= tasks[t].extracted[j].priority

\* C13: re-indexing mutates the existing record: when a run, with every
\* earlier run ended, stores a job whose path is already in the store, the
\* File keeps its id and takes the job's size, its FTS row holds the newly
\* extracted text, the job counts as indexed and no error is recorded.
C13_ReindexUpdatesExisting ==
    [][\A t \in DOMAIN tasks :
          (/\ tasks[t].pc = "store"
           /\ tasks'[t].pc = "job_stop"
           /\ \A u \in DOMAIN tasks \ {t} : tasks[u].pc = "done"
           /\ \E f \in files : f.path = tasks[t].all_jobs[tasks[t].idx + 1].path)
             => LET job == tasks[t].all_jobs[tasks[t].idx + 1]
                    old == CHOOSE f \in files : f.path = job.path
                IN  /\ tasks'[t].indexed_count = tasks[t].indexed_count + 1
                    /\ indexing_errors' = indexing_errors
                    /\ \E f \in files' :
                          f.path = job.path /\ f.id = old.id /\ f.size = job.size
                    /\ old.id \in DOMAIN files_fts'
                    /\ files_fts'[old.id].content = last_result'.text]_vars

\* C14: every job of a run that failed (its extraction failed, or its
\* insert_file or upsert_file_content failed) has emitted one indexing:error
\* event: the run's error events are as many as its jobs that were finished
\* without being indexed.
C14_EveryJobFailureEmitsError ==
    \A t \in DOMAIN tasks :
        Cardinality({i \in DOMAIN events :
                        events[i].run = t /\ events[i].name = "indexing:error"})
            = tasks[t].idx - tasks[t].indexed_count

\* The jobs of run t whose progress step (lines 238-260) has run, as
\* 1-based positions 1..JobsReached(t).
JobsReached(t) ==
    IF tasks[t].pc \in {"extract", "store", "panicked"}
    THEN tasks[t].idx + 1
    ELSE tasks[t].idx

\* The indexing:progress events of run t, in emission order.
ProgressEvents(t) ==
    SelectSeq(events, LAMBDA e : e.run = t /\ e.name = "indexing:progress")

\* C15: in a run of N >= 1 jobs that is not stopped, indexing:progress is
\* emitted for the first job, for the last job and for every tenth job in
\* between (the jobs at positions 11, 21, ..., ten apart counting from the
\* first), in job order and for no other job; each event carries
\* total_files = N and percentage = position / N * 100, at most 100.
C15_ProgressOnFirstLastAndEveryTenth ==
    \A t \in DOMAIN tasks :
        LET N == Len(tasks[t].all_jobs)
            due == {k \in 1..JobsReached(t) : k = 1 \/ k = N \/ (k - 1) % 10 = 0}
            prog == ProgressEvents(t)
        IN  /\ Len(prog) = Cardinality(due)
            /\ \A i \in 1..Len(prog) :
                  \E k \in due :
                      /\ Cardinality({j \in due : j < k}) = i - 1
                      /\ prog[i].file = tasks[t].all_jobs[k].path
                      /\ prog[i].total_files = N
                      /\ prog[i].percentage.num * N = k * 100 * prog[i].percentage.den
                      /\ prog[i].percentage.num <= 100 * prog[i].percentage.den

\* A finished run of more than eleven jobs: the eleventh job is a tenth job
\* in between and has its event.
C15_Witness ==
    \E t \in DOMAIN tasks :
        /\ tasks[t].pc = "done"
        /\ Len(tasks[t].all_jobs) > 11
        /\ tasks[t].idx = Len(tasks[t].all_jobs)
        /\ \E i \in DOMAIN events :
              /\ events[i].name = "indexing:progress"
              /\ events[i].file = tasks[t].all_jobs[11].path

\* ------------------------------------------------------- claims on the store

\* C8: after any sequence of insert_file, upsert_file_content,
\* mark_file_deleted and delete_file, an FTS row with rowid = file_id exists
\* if and only if that File exists, is not soft-deleted and has a FileContent
\* with non-null text_content.
C8_FtsRowIffLiveText ==
    \A id \in FileIds :
        (id \in DOMAIN files_fts) <=>
            /\ \E f \in files : f.id = id /\ ~f.is_deleted
            /\ id \in DOMAIN file_content
            /\ ~file_content[id].null

\* C9: after an upsert_file_content call with a text on a file of the store,
\* the FTS index holds one row for that file whose content is the text of
\* that (the latest) call.
C9_FtsHoldsLatestText ==
    (/\ last_result.op = "upsert_file_content"
     /\ ~last_result.text.null
     /\ FileExists(DbState, last_result.id))
        => /\ last_result.id \in DOMAIN files_fts
           /\ files_fts[last_result.id].content = last_result.text

\* C10: once mark_file_deleted(id) has been applied to a file, the file is
\* not among the rows a search passes or returns, not in list_files, not
\* counted by get_db_stats, and not among the files and chunks of an export,
\* whatever is applied to the store afterwards.
C10_SoftDeletedNeverAppears ==
    \A id \in soft_deleted :
        /\ \A f \in list_files(DbState) : f.id # id
        /\ \A q \in QueryTerms :
              /\ id \notin SearchRows(DbState, q)
              /\ id \notin search_files_fts(DbState, q).rows
        /\ \A f \in StatsRows(DbState) : f.id # id
        /\ get_file_count(DbState) <= Cardinality({f \in files : f.id \notin soft_deleted})
        /\ get_indexed_file_count(DbState)
              <= Cardinality({f \in files : f.id \notin soft_deleted})
        /\ \A f \in get_files_for_export(DbState) : f.id # id
        /\ id \notin ExportChunkDocs(DbState)

\* A soft-deleted file received a later upsert_file_content that succeeded:
\* its text is in file_content and in the FTS index, and a query matches it.
C10_Witness ==
    \E id \in soft_deleted :
        /\ last_result.op = "upsert_file_content"
        /\ last_result.ok
        /\ last_result.id = id
        /\ FileExists(DbState, id)
        /\ id \in DOMAIN files_fts
        /\ \E q \in Terms : FtsMatch(files_fts[id], q)

\* The rows of files on which mark_file_deleted was never applied.
LiveFiles == {f \in files : f.id \notin soft_deleted}

\* C20: after any sequence of store operations get_db_stats returns
\* total_files = the number of non-deleted files, indexed_files = the number
\* of non-deleted files that have a file_content row, and total_size_bytes =
\* the sum of the sizes of the non-deleted files; so indexed_files <=
\* total_files.
C20_StatsCountLiveFiles ==
    LET stats == get_db_stats(DbState)
        indexed == {f \in LiveFiles : f.id \in DOMAIN file_content}
    IN  /\ stats.total_files = Cardinality(LiveFiles)
        /\ stats.indexed_files = Cardinality(indexed)
        /\ stats.total_size_bytes = SumOver(LiveFiles, [f \in LiveFiles |-> f.size])
        /\ stats.indexed_files <= stats.total_files

\* Two files were stored with content; one was soft-deleted, the other has
\* lost its row in files while its content stayed: neither is counted.
C20_Witness ==
    /\ Cardinality(files) = 1
    /\ soft_deleted # {}
    /\ \A f \in files : f.id \in soft_deleted /\ f.id \in DOMAIN file_content
    /\ \E id \in DOMAIN file_content : ~FileExists(DbState, id)
    /\ get_db_stats(DbState).total_files = 0

\* C11: delete_file(id) of a file of the store is a cascading hard delete:
\* after it returns, the store holds no File, no FileContent row and no FTS row with that id,
\* whichever way the connection enforces foreign keys.
C11_DeleteFileCascades ==
    [][(last_result'.op = "delete_file" /\ FileExists(DbState, last_result'.id))
          => /\ \A f \in files' : f.id # last_result'.id
             /\ last_result'.id \notin DOMAIN file_content'
             /\ last_result'.id \notin DOMAIN files_fts']_vars

\* C12 as stated: insert_file with a path already in the store fails with
\* Duplicate, creates no File row and leaves every row unchanged.
C12_DuplicatePathFailsWithDuplicate ==
    [][(last_result'.op = "insert_file" /\ \E f \in files : f.path = last_result'.path)
          => /\ ~last_result'.ok
             /\ last_result'.err = "Duplicate"
             /\ UNCHANGED <<files, file_content, files_fts, seq>>]_vars

\* C12 as amended: insert_file with a path already in the store fails with
\* DatabaseError (the UNIQUE constraint failure, converted by
\* From<rusqlite::Error>), creates no File row and leaves every File,
\* FileContent and FTS row unchanged.
C12_DuplicatePathFailsUnchanged ==
    [][(last_result'.op = "insert_file" /\ \E f \in files : f.path = last_result'.path)
          => /\ ~last_result'.ok
             /\ last_result'.err = "DatabaseError"
             /\ UNCHANGED <<files, file_content, files_fts, seq>>]_vars

\* An insert_file has just failed on a path whose file has content and an
\* FTS row.
C12_Witness ==
    /\ last_result.op = "insert_file"
    /\ ~last_result.ok
    /\ \E f \in files : /\ f.path = last_result.path
                         /\ f.id \in DOMAIN file_content
                         /\ f.id \in DOMAIN files_fts

\* ------------------------------------------- claims on scanner and queue

\* C21: after a scan_directory that completed, the scanner's progress has
\* total_files equal to the number of jobs returned and the counter of
\* scanned files equal to it (so the percentage is 100 for a non-empty
\* result), whatever the directory holds and also on a scanner that has
\* scanned before; the counter never exceeds total_files.
C21_ProgressMatchesJobs ==
    /\ progress.current_file <= progress.total_files
    /\ scan_result = "Ok" =>
          /\ progress.total_files = Len(jobs)
          /\ progress.current_file = Len(jobs)

\* C6: the job list returned by scan_directory(root) is sorted by
\* (priority DESC, modified DESC): of two adjacent jobs the earlier has
\* strictly higher priority, or equal priority and a modified time that is
\* not older than the later one's.
C6_SortedByPriorityThenModified ==
    scan_result = "Ok" =>
        \A i \in 1..(Len(jobs) - 1) : priority_then_modified_leq(jobs[i], jobs[i + 1])

\* C7: successive pops return jobs in non-increasing priority and, among
\* jobs of equal priority, the job with the newer modified time first; pop
\* returns None exactly when every pushed job has been popped.
C7_PopsMaxPriorityNewestFirst ==
    /\ \A i \in 1..(Len(popped) - 1) :
          priority_then_modified_leq(popped[i], popped[i + 1])
    /\ last_pop = "None" => queue = <<>>

\* ------------------------------------------------------ claims on the export

RECURSIVE ConcatWords(_)
ConcatWords(contents) ==
    IF contents = <<>> THEN <<>>
    ELSE split_whitespace(Head(contents)) \o ConcatWords(Tail(contents))

\* C16: a text of W >= 1 words is exported as ceil(W / 375) chunks, each of
\* exactly 375 words except the last, which has between 1 and 375; the words
\* of the chunks, in order, are the words of the text; a text without words
\* is exported as one chunk holding the raw text; the i-th chunk (from 0)
\* has position i.
C16_ChunksOf375WordsConserveText ==
    chunking.pc = "done" =>
        LET words == split_whitespace(chunking.text)
            W == Len(words)
            out == chunking.out
            n == Len(out)
        IN  /\ \A i \in 1..n : out[i].position = i - 1
            /\ IF W = 0
               THEN n = 1 /\ out[1].content = chunking.text
               ELSE /\ n = (W + 374) \div 375
                    /\ \A i \in 1..(n - 1) :
                          Len(split_whitespace(out[i].content)) = 375
                    /\ Len(split_whitespace(out[n].content)) \in 1..375
                    /\ ConcatWords([i \in 1..n |-> out[i].content]) = words

\* A padded text of two full chunks and a tail has been chunked.
C16_Witness ==
    /\ chunking.pc = "done"
    /\ Len(chunking.l.words) > 750
    /\ Len(chunking.text) > 2 * Len(chunking.l.words)
    /\ Len(chunking.out) = 3

\* The words of the text_content of file f; none without a file_content row
\* and for NULL.
WordCount(f) ==
    IF f.id \in DOMAIN file_content THEN Len(file_content[f.id].words) ELSE 0

\* The chunks one exported file contributes: none without text, one for a
\* text without words, else ceil(W / 375).
ChunksOfFile(f) ==
    IF f.id \notin DOMAIN file_content \/ file_content[f.id].null THEN 0
    ELSE IF WordCount(f) = 0 THEN 1
    ELSE (WordCount(f) + 374) \div 375

Exported == {f \in files : ~f.is_deleted}

\* C17 as stated: an export with embeddings disabled reports total_files =
\* the number of exported files and has_embeddings = false, and has
\* ceil(total_words / 375) chunks, total_words being the sum of the word
\* counts of the exported files.
C17_ChunksAreCeilOfTotalWords ==
    [][package'.exports # package.exports
          => /\ package'.result.metadata.total_files = Cardinality(Exported)
             /\ ~package'.result.metadata.has_embeddings
             /\ Cardinality(package'.result.chunks)
                   = (SumOver(Exported, [f \in Exported |-> WordCount(f)]) + 374) \div 375]_vars

\* C17 amended: chunking is per file, so the number of chunks is the sum
\* over the exported files of the chunks of each file.
C17_ChunksAreSumOfFileChunks ==
    [][package'.exports # package.exports
          => /\ package'.result.metadata.total_files = Cardinality(Exported)
             /\ ~package'.result.metadata.has_embeddings
             /\ Cardinality(package'.result.chunks) = SumOver(Exported, [f \in Exported |-> ChunksOfFile(f)])
             /\ package'.result.metadata.total_chunks
                   = Cardinality(package'.result.chunks)]_vars

\* An export of two files that both have words: two chunks for two words.
C17_Witness ==
    /\ package.exports = 1
    /\ package.result.metadata.total_files = 2
    /\ Cardinality(package.result.chunks) = 2
    /\ \A c \in package.result.chunks : c.content # <<>>

\* The output paths C18 is about: blank, with a ".." component, or absolute
\* outside the home and the temp directory.
BadOutputPath(path) ==
    \/ path.blank
    \/ \E i \in DOMAIN path.comps : path.comps[i] = ".."
    \/ /\ path.absolute
       /\ ~starts_with(path.comps, home_dir)
       /\ ~starts_with(path.comps, temp_dir)

C19_ValidatorIdempotent ==
    validation.pc = "twice" =>
        /\ validation.first.ok =>
              validation.second.ok /\ validation.second.out = validation.first.out
        /\ ~validation.first.ok => ~validation.second.ok
\* ---------------------------------------------------- claims on the commands

\* C22: get_file_detail returns as content preview the first 500 code units
\* of text_content with "..." appended exactly when the text was longer than
\* that (a shorter text is returned as it is), and full_content is present
\* exactly when include_full_content was requested.
C22_PreviewTruncatesAndMarks ==
    (/\ detail.pc = "returned"
     /\ detail.result.outcome = "Ok"
     /\ detail.content.some
     /\ detail.content.value.some) =>
        LET text == detail.content.value.value
        IN  /\ detail.result.content_preview.some
            /\ detail.result.content_preview.value =
                   IF Len(text) > PreviewLen
                   THEN SubSeq(text, 1, PreviewLen) \o Dots
                   ELSE text
            /\ detail.result.full_content.some <=>
                   unwrap_or(detail.include_full_content, FALSE)

\* C23: stop_indexing acknowledges and sets the stop flag only while a run is
\* active; called with no run active it returns 'No indexing operation in
\* progress' and leaves stop_indexing, indexing_active, the progress and the
\* errors as they are.
C23_StopOnlyWhileRunActive ==
    [][/\ (stop_call.pc = "holding" /\ stop_call'.result = "Ok") =>
              RunningTasks # {}
       /\ (stops' # stops /\ RunningTasks = {}) =>
              /\ stop_call'.result = "No indexing operation in progress"
              /\ UNCHANGED <<stop_indexing, indexing_active, indexing_progress,
                             indexing_errors>>]_vars

\* The roots of a list whose scan fails, and the jobs of the others in the
\* order of the list.
FailedRoots(paths) == {i \in 1..Len(paths) : ~scan_root(paths[i]).ok}

RECURSIVE JobsOfRoots(_, _)
JobsOfRoots(paths, n) ==
    IF n = 0 THEN <<>> ELSE JobsOfRoots(paths, n - 1) \o scan_root(paths[n]).jobs

\* C24: in the scan phase a root that does not exist or whose scan fails
\* adds exactly one entry to indexing_errors and does not end the run: the
\* roots after it are still scanned, and a run that nobody stopped hands the
\* jobs of every root whose scan succeeded to the extraction.
C24_FailedRootIsRecordedAndSkipped ==
    [][\A t \in DOMAIN tasks :
          LET task == tasks[t]
              after == tasks'[t]
          IN  /\ (/\ task.pc = "scan" /\ task.root <= Len(task.paths)
                  /\ after # task
                  /\ ~scan_root(task.paths[task.root]).ok) =>
                     /\ Len(indexing_errors') = Len(indexing_errors) + 1
                     /\ SubSeq(indexing_errors', 1, Len(indexing_errors)) = indexing_errors
                     /\ indexing_errors'[Len(indexing_errors')][2] = task.paths[task.root]
                     /\ after.pc \in {"scan", "scan_stop"}
                     /\ after.all_jobs = task.all_jobs
              /\ (task.pc = "scan" /\ after.pc = "job_stop") =>
                     /\ after.all_jobs = JobsOfRoots(task.paths, Len(task.paths))
                     /\ Len(indexing_errors') = Cardinality(FailedRoots(task.paths))
              /\ (after.pc = "done" /\ task.pc # "done" /\ ~stop_indexing) =>
                     after.extracted = JobsOfRoots(task.paths, Len(task.paths))]_vars

C24_Witness ==
    \E t \in DOMAIN tasks :
        /\ tasks[t].pc = "done"
        /\ ~stop_indexing
        /\ Len(tasks[t].paths) = 3
        /\ ~scan_root(tasks[t].paths[1]).ok
        /\ scan_root(tasks[t].paths[2]).ok
        /\ ~scan_root(tasks[t].paths[3]).ok
        /\ RootKind(tasks[t].paths[1]) # RootKind(tasks[t].paths[3])
        /\ Len(indexing_errors) >= 2
        /\ tasks[t].extracted # <<>>

C26_JobWritesAreAtomic ==
    /\ \A f \in files : f.id \in DOMAIN file_content /\ f.id \in DOMAIN files_fts
    /\ \A i \in 1..Len(indexing_errors) :
          indexing_errors[i][1] = "Failed to insert content" =>
              ~\E f \in files : f.path = indexing_errors[i][2]

\* C27: once a run has ended, get_index_status reports as indexed_files the
\* indexed_files of that run's indexing:complete event (the jobs stored
\* successfully), also for runs with failed jobs and for stopped runs; at
\* all times it reports no more indexed files than total files.
C27_StatusAgreesWithCompleteEvent ==
    /\ get_index_status.indexed_files <= get_index_status.total_files
    /\ \A t \in DOMAIN tasks :
          tasks[t].pc = "done" =>
              \A i \in 1..Len(events) :
                  (events[i].name = "indexing:complete" /\ events[i].run = t) =>
                      get_index_status.indexed_files = events[i].indexed_files

\* The non-deleted files without an Embedding.
WithoutEmbedding == {f.id : f \in {g \in files : ~g.is_deleted /\ g.id \notin embeddings}}

\* C28: generate_all_embeddings terminates for every store and every
\* batch_size >= 1: an iteration of its batch loop that does not end the
\* loop leaves fewer files without an embedding than it found, also when
\* files without text or with a failing generation remain and batch_size
\* embeddings have been generated already.
C28_BatchLoopProgresses ==
    [][(embed_call.pc = "loop" /\ embed_call'.pc = "loop") =>
          /\ WithoutEmbedding' \subseteq WithoutEmbedding
          /\ WithoutEmbedding' # WithoutEmbedding]_vars

\* C29: when generate_all_embeddings has returned, every non-deleted file
\* with a non-NULL text on which the generation does not fail has an
\* embedding, whatever the number of files and the batch_size, and the count
\* returned is the number of embeddings the call stored.
C29_ReturnsWithEveryFileEmbedded ==
    embed_call.pc = "returned" =>
        /\ \A f \in files :
              (~f.is_deleted /\ EmbedsFile(DbState, embed_call.failing, f.id)) =>
                  f.id \in embeddings
        /\ embed_call.total_generated = Cardinality(embeddings \ embed_call.had)

\* C30: the chunk count a preview command reports for a store is the number
\* of chunks the package export produces for that store, and an export's
\* chunk count is the one a preview of the same store reports.
C30_PreviewAgreesWithExport ==
    [][/\ (preview' # preview) =>
             preview'.chunk_count = export(DbState, FALSE).metadata.total_chunks
       /\ (package' # package) =>
             /\ package'.result.metadata.total_chunks = get_export_preview(DbState).chunk_count
             /\ package'.result.metadata.total_chunks = preview_sync(DbState).chunk_count]_vars

====
